---------------------------- MODULE Spec2Model ----------------------------
(***************************************************************************)
(* Model of the morph-chess replication and orchestration code.            *)
(*                                                                         *)
(* Part 1: the state replicator, sync_game_state (sync_gamestate2.py) and  *)
(*         its asyncio twin sync_gamestate (orchestrator.py).  The two     *)
(*         bodies are statement-for-statement the same; the model follows  *)
(*         sync_gamestate2.py line by line.                                *)
(*                                                                         *)
(* Time is counted in ticks of 0.5 s, the inter-poll delay of the loop.    *)
(***************************************************************************)
EXTENDS Integers, Sequences, FiniteSets, TLC

(***************************************************************************)
(* Bounds of the model and constants of the program.                       *)
(***************************************************************************)
\* timeout argument of sync_game_state, in ticks.
Timeout == 20
\* game_timeout argument of sync_game_state, in ticks.
GameTimeout == 17
\* Longest duration of one sftp.get call, in ticks.
MaxGetTicks == 1
\* Longest duration of opening the ssh/sftp channel, in ticks.
MaxConnTicks == 1
\* Number of distinct well-formed blobs the remote worker can expose.
NBlobs == 2
\* Number of chunks a complete blob is transferred in.
BlobLen == 2
\* Number of parseable observations the history variables record.
MaxHist == 3
\* timeout and game_timeout of the short runs whose history is recorded.
PubTimeout == 5
PubGameTimeout == 3
\* Longest list of alternative moves in an answer of the LLM.
MaxAlts == 3
\* Largest number of instances client.instances.list() returns.
MaxListed == 3
\* Largest chess.max_moves of a config.yaml.
MaxConfigMoves == 3
\* Largest number of moves made in a game of the engine.
MaxPlies == 4
\* Number of game files the monitor of chess_monitor2.py watches.
NFiles == 2
\* Latest modification time of a game file.
MaxMtime == 3
\* max_unchanged = 15
MaxUnchanged == 15
\* time.sleep(0.5): one tick.
SleepTicks == 1

VARIABLES
    pc,                     \* position of the replicator in sync_game_state
    now,                    \* time.time(), in ticks
    last_content_hash,      \* hash of the last published blob, NoHash = None
    last_activity_time,
    consecutive_unchanged,
    end_time,
    timeout,                \* argument: overall deadline, in ticks
    game_timeout,           \* argument: inactivity threshold, in ticks
    fs,                     \* local files: fs[TempFile], fs[TargetFile]
    xfer,                   \* remote content the running sftp.get transfers
    sftp,                   \* the SFTP channel: "none", "open", "closed"
    exitReason,             \* how the replicator left the loop
    readerSaw,              \* what the monitor's last read of the target returned
    histCap,                \* history: number of observations recorded
    lastNewAt,              \* history: time of the last new fingerprint (or start)
    observed,               \* history: hashes of the parseable blobs retrieved
    published               \* history: hashes moved into the target file

syncVars == <<pc, now, last_content_hash, last_activity_time,
              consecutive_unchanged, end_time, timeout, game_timeout, fs,
              xfer, sftp, exitReason, readerSaw, histCap, lastNewAt,
              observed, published>>

(***************************************************************************)
(* Part 2: the orchestrator, main and the __main__ block of                *)
(* orchestrator.py: one play_chess task and one sync_gamestate task per    *)
(* clone, all awaited by one asyncio.gather under asyncio.run.             *)
(***************************************************************************)
VARIABLES
    task,                   \* task[w]: state of worker w's play_chess task:
                            \* "none", "pending", "lookup", "running", ...
    repl,                   \* repl[w]: state of worker w's sync_gamestate task:
                            \* "none", "pending", "lookup", "connecting",
                            \* "opening", "polling", "done", ...
    mainPc,                 \* main: "branch", "metadata", "lists", "call",
                            \* "gather", "raised", "returned"
    cancelReq               \* asyncio.run has cancelled the remaining tasks

\* main before the gather call, and the __main__ block around asyncio.run.
VARIABLES
    scriptPc,               \* __main__: "run", "stop_instances",
                            \* "delete_snapshots", "exit", "crashed"
    nClones,                \* handles returned by branch (-1: not yet)
    clones,                 \* the value bound to the name clones in main
    meta,                   \* metadata files written, by game id
    play_chess_tasks,       \* the list built at line 165
    sync_gamestate_tasks,   \* the list built at line 166
    persist_instances,      \* args.persist_instances
    persist_snapshots,      \* args.persist_snapshots
    instances,              \* the list returned by client.instances.list()
    snapshots,              \* the list returned by client.snapshots.list()
    stops,                  \* instance.stop() calls made, in order
    deletes                 \* snapshot.delete() calls made, in order

scriptVars == <<scriptPc, nClones, clones, meta, play_chess_tasks,
                sync_gamestate_tasks, persist_instances, persist_snapshots,
                instances, snapshots, stops, deletes>>

gatherVars == <<task, repl, mainPc, cancelReq>>

orchVars == <<gatherVars, scriptVars>>

(***************************************************************************)
(* Part 3: the monitor, ChessBoardMonitor of chess_monitor.py: a thread    *)
(* that scans the game files every refresh_rate seconds and schedules      *)
(* callbacks, and the Tk main thread that runs them in order.              *)
(***************************************************************************)
VARIABLES
    disk,                   \* disk[g]: contents of game file g
    metaFile,               \* the metadata files of the games exist
    mnow,                   \* time.time() of the monitor, in seconds
    scanAt,                 \* when the monitoring thread's sleep ends
    after,                  \* callbacks scheduled with root.after(0, ...)
    running,                \* callbacks that have begun and not returned
    last_modified,          \* files find_game_files has met
    game_state_hashes,      \* dict: game id -> hash of the file last shown
    game_last_seen,         \* dict: game id -> time
    displayed_games,        \* set of game ids on display
    boards,                 \* dict: game id -> board
    game_info,              \* dict: game id -> info shown with the board
    game_frames,            \* dict: game id -> grid cell of the game's frame
    rearranged,             \* the last callback ran rearrange_boards
    shownAt                 \* shownAt[g]: when the display of g last changed

monVars == <<disk, metaFile, mnow, scanAt, after, running, last_modified,
             game_state_hashes, game_last_seen, displayed_games, boards,
             game_info, game_frames, rearranged, shownAt>>

(***************************************************************************)
(* Part 4: the worker on a remote instance: the shell command play_chess   *)
(* runs there, agent.py, and chess_game.py, which agent.py drives and      *)
(* which saves the game state.                                             *)
(***************************************************************************)
VARIABLES
    cmd,                    \* the command line agent.py is launched with
    agentPc,                \* "shell", "parse", "start", "play", "exited"
    exitCode,               \* exit status of the command (-1: running)
    game_uuid,              \* game_id of chess_game.py (0: no game yet)
    move_stack,             \* len(board.move_stack)
    remote                  \* paths of the game files written on the instance

workerVars == <<cmd, agentPc, exitCode, game_uuid, move_stack, remote>>

(***************************************************************************)
(* Part 5: the validators of schemas.py, applied by pydantic to an answer  *)
(* of the LLM when a ChessMoveResponse is built from it.                   *)
(***************************************************************************)
VARIABLES
    schemaPc,               \* the field being validated, "validated" or
                            \* "ValidationError"
    selected_move,
    alternative_moves,
    values                  \* the fields that have passed their validators

schemaVars == <<schemaPc, selected_move, alternative_moves, values>>

(***************************************************************************)
(* Part 6: delete_all_instances.py, the loop that stops every listed       *)
(* instance and counts the outcomes.                                       *)
(***************************************************************************)
VARIABLES
    delPc,                  \* "stop", "poll", "counted", "done"
    listed,                 \* len(instances)
    del_i,                  \* index of the instance of the current iteration
    polls,                  \* status polls made in the current iteration
    status,                 \* instance.status of the current instance object
    success_count,
    error_count,
    stoppedSeen             \* history: the instances whose status was read
                            \* as "stopped" after their stop request

delVars == <<delPc, listed, del_i, polls, status, success_count, error_count,
             stoppedSeen>>

(***************************************************************************)
(* Part 7: ChessLLMAgent.play_game of agent.py, with the moves limit        *)
(* __main__ passes to it.                                                  *)
(***************************************************************************)
VARIABLES
    loopPc,                 \* position in play_game: "enter", "first_read",
                            \* "test", "wait", "valid_moves", "query",
                            \* "parse_move", "make_move", "retry", "done",
                            \* "raised"
    args_moves,             \* args.moves (0: not given)
    config,                 \* the chess section of config.yaml
    moves_limit,
    move_count,
    turn,                   \* self.turn
    game_over,              \* self.game_over
    alive                   \* the chess process has not exited

playVars == <<loopPc, args_moves, config, moves_limit, move_count, turn,
              game_over, alive>>

(***************************************************************************)
(* Part 8: ChessEngine of chess_engine.py (make_move, make_computer_move,  *)
(* save_game, _load_game); save_game and load_game of chess_game.py write  *)
(* and read the same fields with the same statements.                      *)
(***************************************************************************)
VARIABLES
    board,                  \* self.board: placement, turn and the two clocks
    stack,                  \* self.board.move_stack
    move_timestamps,        \* the keys of self.move_timestamps
    engine_game_id,         \* self.game_id
    autosave,               \* self.autosave
    saved,                  \* the content of the file at autosave_path
    arg,                    \* the argument of the last call
    result,                 \* what the last call returned or raised
    loaded                  \* the engine made by ChessEngine(load_path=...)

engineVars == <<board, stack, move_timestamps, engine_game_id, autosave,
                saved, arg, result, loaded>>

(***************************************************************************)
(* Part 9: monitor_files of chess_monitor2.py, the monitor thread that     *)
(* compares modification times, and the callbacks it hands to Tk.          *)
(***************************************************************************)
VARIABLES
    mtime,                  \* os.path.getmtime of each game file
    last_modified2,         \* self.last_modified (0: None)
    loopPos,                \* 0: sleeping; i: body of the for loop for the
                            \* i-th file; NFiles + 1: after the loop
    game_file,              \* the loop variable of monitor_files (0: unbound)
    updated,
    after2,                 \* callbacks given to root.after(0, ...)
    checkPending,           \* a check_for_missing_games timer is running
    rendered                \* the mtime of the content each file's display
                            \* was last made from

mon2Vars == <<mtime, last_modified2, loopPos, game_file, updated, after2,
              checkPending, rendered>>

toolVars == <<schemaVars, delVars, playVars, engineVars, mon2Vars>>

vars == <<syncVars, orchVars, monVars, workerVars, toolVars>>

\* What a step of the replicator (of the monitor's read) leaves alone, what
\* a step of the orchestrator leaves alone, what a step of the monitor
\* leaves alone, what a step of the worker leaves alone.
notSync == <<orchVars, monVars, workerVars, toolVars>>
notOrch == <<syncVars, monVars, workerVars, toolVars>>
notMon == <<syncVars, orchVars, workerVars, toolVars>>
notWorker == <<syncVars, orchVars, monVars, toolVars>>
notTool == <<syncVars, orchVars, monVars, workerVars>>
notSchema == <<notTool, delVars, playVars, engineVars, mon2Vars>>
notDel == <<notTool, schemaVars, playVars, engineVars, mon2Vars>>
notPlay == <<notTool, schemaVars, delVars, engineVars, mon2Vars>>
notEngine == <<notTool, schemaVars, delVars, playVars, mon2Vars>>
notMon2 == <<notTool, schemaVars, delVars, playVars, engineVars>>

(***************************************************************************)
(* File contents.  A blob is identified by id and is held in BlobLen       *)
(* chunks; a file holding fewer chunks is a truncated (partially written)  *)
(* blob.                                                                   *)
(***************************************************************************)
NoFile == [id |-> -1, n |-> 0]
Empty == [id |-> 0, n |-> 0]
Blob(b) == [id |-> b, n |-> BlobLen]
Trunc(c, k) == IF k = 0 THEN Empty ELSE [id |-> c.id, n |-> k]

\* What the remote file can hold when sftp.get opens it: a complete blob, or
\* a blob the worker is still writing (json.dump into the open file).
RemoteContents == {Trunc(Blob(b), k) : b \in 1..NBlobs, k \in 0..BlobLen}

\* json.load(open(temp_file)) succeeds.
Parseable(c) == c.id \in 1..NBlobs /\ c.n = BlobLen

NoHash == [alg |-> "none", of |-> 0]
\* calculate_hash: the md5 digest of the file's bytes.
Hash(c) == [alg |-> "md5", of |-> c.id, len |-> c.n]

\* temp_file = tmp/game_id_<id>_tmp.json
TempFile == "temp"
\* target_file = chess_autosaves/game_id_<id>.json, the file the monitor reads.
TargetFile == "target"

\* A download that goes straight to the published path.
GetLocalPathDirect == TargetFile

\* sftp.get(remote_file, temp_file): the local path the download is written to.
GetLocalPath == TempFile

\* shutil.move(src, dst): one rename.
Move(f, src, dst) == [f EXCEPT ![dst] = f[src], ![src] = NoFile]

\* Removal of consecutive repeats.
RECURSIVE Dedup(_)
Dedup(s) ==
    IF Len(s) <= 1 THEN s
    ELSE LET r == Dedup(SubSeq(s, 1, Len(s) - 1))
         IN  IF s[Len(s)] = r[Len(r)] THEN r ELSE Append(r, s[Len(s)])

\* The state on entry of sync_game_state(instance_id, game_id, t, g), after
\* lines 37-41.
Start(t, g, cap) ==
    /\ timeout = t
    /\ game_timeout = g
    /\ histCap = cap
    /\ pc = "connect"
    /\ now = 0
    /\ last_content_hash = NoHash
    /\ last_activity_time = 0
    /\ consecutive_unchanged = 0
    /\ end_time = 0
    /\ fs = [p \in {TempFile, TargetFile} |-> NoFile]
    /\ xfer = NoFile
    /\ sftp = "none"
    /\ exitReason = "none"
    /\ readerSaw = NoFile
    /\ lastNewAt = 0
    /\ observed = <<>>
    /\ published = <<>>

\* game_ids = [1,2,3]: three clones, three workers.
NWorkers == 3
Workers == 1..NWorkers

\* game_ids = [1,2,3]
game_ids == [i \in 1..NWorkers |-> i]
\* strategies = ["aggressive", "defensive", "balanced"]
strategies == <<"aggressive", "defensive", "balanced">>

\* Largest number of handles base_instance.branch can return.
MaxClones == 4

\* An Instance object of the provider: the base instance is 0, the clones
\* returned by branch are 1, 2, ...
Instance(j) == [kind |-> "Instance", of |-> j, pos |-> 0, hasId |-> TRUE]
\* The i-th element produced by iterating the object inst: what it is, and
\* whether it has an attribute named id, is the provider library's matter.
Element(inst, i, a) == [kind |-> "element", of |-> inst.of, pos |-> i,
                        hasId |-> a]
\* x.id: the id of an Instance, or the id attribute of such an element.
IdOf(x) == [kind |-> x.kind, of |-> x.of, pos |-> x.pos]

\* The name clones bound to a list, as branch returns it.
ListOf(l) == [bound |-> "list", list |-> l, inst |-> Instance(0)]
\* The name clones bound to one Instance.
OneInstance(x) == [bound |-> "Instance", list |-> <<>>, inst |-> x]

Min(a, b) == IF a <= b THEN a ELSE b
\* list(zip(a, b, c)); with c = b it is list(zip(a, b)).
Zip(xs, ys, zs) ==
    [i \in 1..Min(Len(xs), Min(Len(ys), Len(zs))) |->
        [c |-> xs[i], g |-> ys[i], s |-> zs[i]]]

\* The snapshots of the run: the one setup_snapshot created and the one
\* branch created.
SnapshotIds == <<1, 2>>

\* The state when main is about to call base_instance.branch, under
\* asyncio.run, with the two persist flags as parsed.
OrchStart(pi, ps) ==
    /\ task = [w \in Workers |-> "none"]
    /\ repl = [w \in Workers |-> "none"]
    /\ mainPc = "branch"
    /\ cancelReq = FALSE
    /\ scriptPc = "run"
    /\ nClones = -1
    /\ clones = ListOf(<<>>)
    /\ meta = <<>>
    /\ play_chess_tasks = <<>>
    /\ sync_gamestate_tasks = <<>>
    /\ persist_instances = pi
    /\ persist_snapshots = ps
    /\ instances = <<>>
    /\ snapshots = <<>>
    /\ stops = <<>>
    /\ deletes = <<>>

(***************************************************************************)
(* The monitor's data.                                                     *)
(***************************************************************************)
\* The game files that can exist in chess_autosaves: game_id_<g>.json for the
\* game ids of the orchestrator.
GameIds == {game_ids[i] : i \in 1..NWorkers}

\* Number of games that run while the monitor watches, and number of games
\* in the runs that look at the layout of the grid.
NGames == 1
Games == 1..NGames
NGridGames == 2
GridGames == 1..NGridGames

\* game_timeout of the monitor, in seconds.
MonGameTimeout == 1
\* refresh_rate=1.0
RefreshRate == 1
\* The latest time of the monitor's clock.
MaxMonTime == 2

\* cols = min(3, num_games)
MaxCols == 3

\* What a game file can hold: nothing (no file), an empty file, one of two
\* blobs.
GameFileContents == {NoFile, Empty, Blob(1), Blob(NBlobs)}

\* A game file that is a JSON document whose "fen" is not a position:
\* json.loads reads it, chess.Board(fen) raises ValueError.
BadPosition == [id |-> NBlobs + 1, n |-> BlobLen]
\* json.loads(file_content) of the monitor succeeds.
JsonDocument(c) == Parseable(c) \/ c = BadPosition
\* chess.Board(fen) succeeds.
ValidFen(c) == c # BadPosition

\* The game id create_or_update_game_display derives from the file name:
\* basename without ".json" and without "game_id_".
DisplayKey(g) == [prefix |-> "", n |-> g]
\* The game id monitor_files and find_game_files derive from the file name:
\* basename without ".json".
ScanKey(g) == [prefix |-> "game_id_", n |-> g]

\* Python dicts as functions: d[k] = v.
Put(d, k, v) == [x \in (DOMAIN d) \cup {k} |-> IF x = k THEN v ELSE d[x]]
EmptyDict == [x \in {} |-> 0]

\* glob.glob(self.games_pattern): the game files that exist.
GameFiles == {g \in GameIds : disk[g] # NoFile}
\* sorted(S), as a sequence.
Sorted(S) ==
    [i \in 1..Cardinality(S) |->
        CHOOSE g \in S : Cardinality({h \in S : h < g}) = i - 1]
\* row, col = index // cols, index % cols
Cell(index, cols) == [row |-> index \div cols, col |-> index % cols]

\* The keys of the document save_game writes into a game file.
SavedKeys ==
    {"game_id", "fen", "move_history", "move_timestamps", "last_updated"}

\* game_data.get("strategy_name", "Unknown")
StrategyShown(c) ==
    IF "strategy_name" \in SavedKeys THEN "strategy_name of the file"
    ELSE "Unknown"

\* chess.Board(fen) and the game info of a parsed file, with the instance id
\* read from the game's metadata file ("Unknown" without one).
BoardOf(c) == [fen |-> c.id]
InfoOf(g, c) ==
    [file |-> g, state |-> c.id, strategy |-> StrategyShown(c),
     instance_id |-> IF metaFile THEN IdOf(Instance(g))
                     ELSE [kind |-> "Unknown", of |-> 0, pos |-> 0]]

\* The monitor as constructed over an empty directory: no file found, no
\* board loaded, the monitoring thread about to run its first cycle.
MonStart ==
    /\ disk = [g \in GameIds |-> NoFile]
    /\ metaFile = FALSE
    /\ mnow = 0
    /\ scanAt = 0
    /\ after = <<>>
    /\ running = <<>>
    /\ last_modified = {}
    /\ game_state_hashes = EmptyDict
    /\ game_last_seen = EmptyDict
    /\ displayed_games = {}
    /\ boards = EmptyDict
    /\ game_info = EmptyDict
    /\ game_frames = EmptyDict
    /\ rearranged = FALSE
    /\ shownAt = [g \in GameIds |-> 0]

(***************************************************************************)
(* The worker's data.                                                      *)
(***************************************************************************)
\* NUM_MOVES = 2
NUM_MOVES == 2
\* Largest --moves of a launch of agent.py by hand.
MaxMoves == 3
\* Number of distinct values uuid.uuid4() can return.
NUuids == 3

\* config['chess'] with max_moves: k, and without max_moves.
ChessConfig(k) == [has_max_moves |-> TRUE, max_moves |-> k]
NoMaxMoves == [has_max_moves |-> FALSE, max_moves |-> 0]

\* The default of config.get('chess', {}).get('max_moves', 50).
DefaultMaxMoves == 50

\* moves_limit = args.moves or (config.get('chess', {}).get('max_moves', 50)
\* if config else 50), line 672.
MainMovesLimit(m, c) ==
    IF m # 0 THEN m
    ELSE IF c.has_max_moves THEN c.max_moves ELSE DefaultMaxMoves

\* play_game lines 533-535: the argument is replaced by the configured
\* value when the configuration has one.
PlayMovesLimit(limit, c) == IF c.has_max_moves THEN c.max_moves ELSE limit

\* The command line play_chess builds for game id g with strategy s:
\* ... && cd app && mkdir chess_autosaves && uv add pyproject.toml &&
\* uv run agent.py --game-id g --moves NUM_MOVES --strategy s
PlayChessCmd(g, s) ==
    [by |-> "play_chess", cwd |-> "app", options |-> {"--game-id", "--moves", "--strategy"},
     game_id |-> g, strategy |-> s, moves |-> NUM_MOVES, autosave |-> TRUE,
     config |-> NoMaxMoves]

\* A launch of agent.py with the options its own parser defines, in a
\* directory whose config.yaml has the chess section c.
AgentCmd(m, a, c) ==
    [by |-> "cli", cwd |-> "app", options |-> {"--moves"} \cup (IF a THEN {} ELSE {"--no-autosave"}),
     game_id |-> 0, strategy |-> "", moves |-> m, autosave |-> a,
     config |-> c]

\* The options arg_parser of agent.py defines.
AgentOptions ==
    {"--chess", "--load", "--no-autosave", "--moves", "--debug", "--config"}

\* A file path: the directory it is in and the parts of its name.
Path(dir, prefix, id, move) ==
    [dir |-> dir, prefix |-> prefix, id |-> id, move |-> move]

\* remote_file = f"app/chess_autosaves/game_id_{game_id}.json"
RemoteFile(g) ==
    Path(<<"app", "chess_autosaves">>, "game_id_", [kind |-> "game_id", n |-> g], 0)

\* os.path.join(autosave_dir, f"chess_game_{game_id}_move_{n}.json") in the
\* working directory cwd, game_id being the uuid of chess_game.py.
AutosavePath(cwd, u, n) ==
    Path(<<cwd, "chess_autosaves">>, "chess_game_", [kind |-> "uuid", n |-> u], n)

\* The worker about to run the command c.
WorkerStart(c) ==
    /\ cmd = c
    /\ agentPc = IF c.by = "play_chess" THEN "shell" ELSE "parse"
    /\ exitCode = -1
    /\ game_uuid = 0
    /\ move_stack = 0
    /\ remote = {}

\* The commands a worker is launched with: by play_chess for each game of
\* the orchestrator, or by hand.
Commands ==
    {PlayChessCmd(game_ids[i], strategies[i]) : i \in 1..NWorkers}
        \cup {AgentCmd(m, a, c) : m \in 1..MaxMoves, a \in BOOLEAN,
                                  c \in {NoMaxMoves, ChessConfig(MaxConfigMoves)}}

(***************************************************************************)
(* schemas.py: the answers a ChessMoveResponse is built from.              *)
(***************************************************************************)
\* Move texts an answer can hold: UCI text of 4 and of 5 characters, and a
\* text of another length.
MoveTexts == {"e2e4", "d2d4", "e7e8q", "e2"}

\* The lists of at most MaxAlts move texts.
AltLists == UNION {[1..n -> MoveTexts] : n \in 0..MaxAlts}

\* x in v, for a list v.
In(x, v) == \E i \in 1..Len(v) : v[i] = x

\* v.remove(x): the list without its first item equal to x.
RECURSIVE Remove(_, _)
Remove(v, x) ==
    IF v = <<>> THEN v
    ELSE IF Head(v) = x THEN Tail(v)
    ELSE <<Head(v)>> \o Remove(Tail(v), x)

\* ChessMoveResponse(selected_move=s, alternative_moves=a) is called: the
\* fields are validated in the order of their declaration.
SchemaStart(s, a) ==
    /\ schemaPc = "selected_move"
    /\ selected_move = s
    /\ alternative_moves = a
    /\ values = {}

(***************************************************************************)
(* delete_all_instances.py                                                 *)
(***************************************************************************)
\* for _ in range(30)
StatusPolls == 30

\* The values of instance.status the loop tells apart.
Statuses == {"ready", "stopped"}

\* The state at line 60, with n instances listed and the deletion confirmed.
DelStart(n) ==
    /\ delPc = IF n = 0 THEN "done" ELSE "stop"
    /\ listed = n
    /\ del_i = 1
    /\ polls = 0
    /\ status = "ready"
    /\ success_count = 0
    /\ error_count = 0
    /\ stoppedSeen = {}

(***************************************************************************)
(* agent.py: the moves limit and play_game.                                *)
(***************************************************************************)
\* What _parse_output can find in an output: a turn ("" when the output
\* names none), "Game over" or "checkmate", and "Error".
Outputs == [turn : {"", "White", "Black"}, over : BOOLEAN, error : BOOLEAN]

\* The output read from a process that has exited: nothing.
NoOutput == [turn |-> "", over |-> FALSE, error |-> FALSE]

\* agent.play_game(moves_limit=...) is called at line 675 with --moves m
\* and configuration c, after start_new_game has parsed the output o.
PlayStart(m, c, o) ==
    /\ loopPc = "enter"
    /\ args_moves = m
    /\ config = c
    /\ moves_limit = MainMovesLimit(m, c)
    /\ move_count = 0
    /\ turn = o.turn
    /\ game_over = o.over
    /\ alive = TRUE

(***************************************************************************)
(* chess_engine.py: the part of the game played by the knights of g1, g8   *)
(* and b8 between their home squares and f3, f6 and c6.  Every other piece *)
(* stays at home, so no move of this part captures, gives check or changes *)
(* the castling rights; g3 is a square no piece of this part can reach.    *)
(***************************************************************************)
Squares == {"g1", "f3", "g3", "g8", "f6", "b8", "c6"}

\* chess.Board(): the starting position on these squares.
StartPlacement ==
    [s \in Squares |-> CASE s = "g1" -> "N"
                         [] s \in {"g8", "b8"} -> "n"
                         [] OTHER -> ""]

StartBoard ==
    [at |-> StartPlacement, turn |-> "w", halfmove |-> 0, fullmove |-> 1]

\* The squares a knight on s attacks, among Squares.
Jumps ==
    [s \in Squares |-> CASE s = "g1" -> {"f3"}
                         [] s = "f3" -> {"g1"}
                         [] s = "g8" -> {"f6"}
                         [] s = "f6" -> {"g8"}
                         [] s = "b8" -> {"c6"}
                         [] s = "c6" -> {"b8"}
                         [] OTHER -> {}]

\* The side a piece belongs to: white pieces are upper case.
Side(p) == CASE p = "N" -> "w" [] p = "n" -> "b" [] OTHER -> ""

\* A UCI text is written as the list of its square names: the texts of
\* the moves from a knight's square, and the texts the calls are made
\* with: the knight moves, a move no piece can make, and two texts that
\* are not UCI.
UciTexts == {<<s, t>> : s \in {"g1", "f3", "g8", "f6", "b8", "c6"},
                       t \in {"g1", "f3", "g8", "f6", "b8", "c6", "g3"}}
CallTexts == {<<"g1", "f3">>, <<"f3", "g1">>, <<"g8", "f6">>, <<"f6", "g8">>,
              <<"b8", "c6">>, <<"c6", "b8">>, <<"g1", "g3">>, <<"g1">>,
              <<"zz", "f3">>}

\* chess.Move.from_uci(t) does not raise ValueError.
IsUci(t) == Len(t) = 2 /\ t[1] \in Squares /\ t[2] \in Squares
\* chess.Move.from_uci(t), and move.uci().
FromUci(t) == [from |-> t[1], to |-> t[2]]
Uci(mv) == <<mv.from, mv.to>>

\* move in board.legal_moves.
Legal(b, mv) ==
    /\ b.at[mv.from] # ""
    /\ Side(b.at[mv.from]) = b.turn
    /\ mv.to \in Jumps[mv.from]
    /\ Side(b.at[mv.to]) # b.turn

\* list(board.legal_moves), for the moves of this part of the game.
LegalMoves(b) ==
    {mv \in {FromUci(t) : t \in UciTexts} : Legal(b, mv)}

\* board.push(mv): the piece is moved, the turn passes, the clocks advance.
Push(b, mv) ==
    [at |-> [b.at EXCEPT ![mv.from] = "", ![mv.to] = b.at[mv.from]],
     turn |-> IF b.turn = "w" THEN "b" ELSE "w",
     halfmove |-> IF b.at[mv.to] # "" THEN 0 ELSE b.halfmove + 1,
     fullmove |-> IF b.turn = "b" THEN b.fullmove + 1 ELSE b.fullmove]

\* The order in which a FEN lists the squares: rank 8 first, files a to h.
FenOrder == <<"b8", "g8", "c6", "f6", "f3", "g3", "g1">>

\* board.fen(): the placement field, the side to move, the castling and
\* en passant fields, the two clocks.
BoardFen(b) ==
    <<[i \in 1..Len(FenOrder) |-> b.at[FenOrder[i]]], b.turn, "KQkq", "-",
      b.halfmove, b.fullmove>>

\* The index of square s in FenOrder.
FenIndex(s) == CHOOSE i \in 1..Len(FenOrder) : FenOrder[i] = s

\* chess.Board(fen).
BoardFromFen(f) ==
    [at |-> [s \in Squares |-> f[1][FenIndex(s)]], turn |-> f[2],
     halfmove |-> f[5], fullmove |-> f[6]]

\* No file, no engine loaded.
NoSave == [game_id |-> 0, fen |-> <<>>, move_history |-> <<>>,
           move_timestamps |-> {}]
NoEngine == [board |-> StartBoard, stack |-> <<>>, game_id |-> 0,
             move_timestamps |-> {}]

\* game_data of save_game.
GameData(id, b, st, ts) ==
    [game_id |-> id, fen |-> BoardFen(b),
     move_history |-> [i \in 1..Len(st) |-> Uci(st[i])],
     move_timestamps |-> ts]

\* The loop of _load_game over move_history, from the engine e: a text that
\* is not UCI is skipped, a legal move is pushed, an illegal one ends the
\* loop.
RECURSIVE Replay(_, _)
Replay(e, h) ==
    IF h = <<>> THEN e
    ELSE IF ~IsUci(Head(h)) THEN Replay(e, Tail(h))
    ELSE IF Legal(e.board, FromUci(Head(h)))
    THEN Replay([e EXCEPT !.board = Push(e.board, FromUci(Head(h))),
                          !.stack = Append(e.stack, FromUci(Head(h)))],
                Tail(h))
    ELSE e

\* _load_game(filepath) on a file with the content d: the board of the
\* FEN, the game id, the timestamps, then board.clear_stack() and the
\* replay of move_history.
LoadGame(d) ==
    Replay([board |-> BoardFromFen(d.fen), stack |-> <<>>,
            game_id |-> d.game_id, move_timestamps |-> d.move_timestamps],
           d.move_history)

\* ChessEngine(autosave=a): a new game with id u.
EngineStart(u, a) ==
    /\ board = StartBoard
    /\ stack = <<>>
    /\ move_timestamps = {}
    /\ engine_game_id = u
    /\ autosave = a
    /\ saved = NoSave
    /\ arg = <<>>
    /\ result = "none"
    /\ loaded = NoEngine

(***************************************************************************)
(* chess_monitor2.py                                                       *)
(***************************************************************************)
\* self.game_files, in the order glob returned them.
Files2 == 1..NFiles

\* The monitor thread is started: no file has been looked at, no callback
\* is waiting, nothing is displayed.
Mon2Start ==
    /\ mtime = [f \in Files2 |-> 1]
    /\ last_modified2 = [f \in Files2 |-> 0]
    /\ loopPos = 0
    /\ game_file = 0
    /\ updated = FALSE
    /\ after2 = <<>>
    /\ checkPending = FALSE
    /\ rendered = [f \in Files2 |-> 0]

ToolsStart ==
    /\ SchemaStart("e2e4", <<>>)
    /\ DelStart(1)
    /\ PlayStart(NUM_MOVES, NoMaxMoves, NoOutput)
    /\ EngineStart(1, TRUE)
    /\ Mon2Start

Init ==
    /\ Start(Timeout, GameTimeout, 0)
    /\ OrchStart(FALSE, FALSE)
    /\ MonStart
    /\ WorkerStart(PlayChessCmd(game_ids[1], strategies[1]))
    /\ ToolsStart

InitPub ==
    /\ Start(PubTimeout, PubGameTimeout, MaxHist)
    /\ OrchStart(FALSE, FALSE)
    /\ MonStart
    /\ WorkerStart(PlayChessCmd(game_ids[1], strategies[1]))
    /\ ToolsStart

InitOrch ==
    /\ Start(Timeout, GameTimeout, 0)
    /\ \E pi \in BOOLEAN, ps \in BOOLEAN : OrchStart(pi, ps)
    /\ MonStart
    /\ WorkerStart(PlayChessCmd(game_ids[1], strategies[1]))
    /\ ToolsStart

InitWorker ==
    /\ Start(Timeout, GameTimeout, 0)
    /\ OrchStart(FALSE, FALSE)
    /\ MonStart
    /\ \E c \in Commands : WorkerStart(c)
    /\ ToolsStart

\* A loop exit that leaves the channel as it is.
ChannelLeftOpen == "open"

\* finally: sftp.close(): the state of the channel after any exit of the try
\* block.
ChannelAtExit == "closed"

\* with instance.ssh() as ssh; sftp = open_sftp(); start_time; end_time.
ConnectOk ==
    /\ pc = "connect"
    /\ \E d \in 0..MaxConnTicks :
          /\ now' = now + d
          /\ end_time' = now + d + timeout
    /\ pc' = "test"
    /\ sftp' = "open"
    /\ UNCHANGED <<last_content_hash, last_activity_time,
                   consecutive_unchanged, timeout, game_timeout, fs, xfer,
                   exitReason, readerSaw, histCap, lastNewAt, observed,
                   published>>
    /\ UNCHANGED notSync

\* instance.ssh() or open_sftp() raises: outside the try, the error leaves
\* the function.
ConnectFail ==
    /\ pc = "connect"
    /\ pc' = "done"
    /\ exitReason' = "raised"
    /\ UNCHANGED <<now, last_content_hash, last_activity_time,
                   consecutive_unchanged, end_time, timeout, game_timeout,
                   fs, xfer, sftp, readerSaw, histCap, lastNewAt, observed,
                   published>>
    /\ UNCHANGED notSync

\* A loop test that forgets the unchanged limit.
LoopGuardNoLimit == now < end_time

\* A loop test that forgets the deadline.
LoopGuardNoDeadline == consecutive_unchanged <= MaxUnchanged

\* while time.time() < end_time and consecutive_unchanged <= max_unchanged
LoopGuard == now < end_time /\ consecutive_unchanged <= MaxUnchanged

LoopEnter ==
    /\ pc = "test"
    /\ LoopGuard
    /\ pc' = "get"
    /\ UNCHANGED <<now, last_content_hash, last_activity_time,
                   consecutive_unchanged, end_time, timeout, game_timeout,
                   fs, xfer, sftp, exitReason, readerSaw, histCap, lastNewAt,
                   observed, published>>
    /\ UNCHANGED notSync

LoopExit ==
    /\ pc = "test"
    /\ ~LoopGuard
    /\ pc' = "done"
    /\ sftp' = ChannelAtExit
    /\ exitReason' = IF now >= end_time THEN "deadline" ELSE "unchanged_limit"
    /\ UNCHANGED <<now, last_content_hash, last_activity_time,
                   consecutive_unchanged, end_time, timeout, game_timeout,
                   fs, xfer, readerSaw, histCap, lastNewAt, observed,
                   published>>
    /\ UNCHANGED notSync

\* An inactivity test that measures from the start of the loop.
InactiveSinceStart(t) == t - (end_time - timeout) > game_timeout

\* if time_since_activity > game_timeout: break
InactiveTooLong(t) == t - last_activity_time > game_timeout

\* A not-found poll that is counted as an unchanged one.
GetNotFoundCounted ==
    /\ pc = "get"
    /\ \E d \in 0..MaxGetTicks :
          /\ now' = now + d
          /\ IF InactiveTooLong(now + d)
             THEN pc' = "done" /\ exitReason' = "inactive" /\ sftp' = ChannelAtExit
             ELSE pc' = "sleep" /\ UNCHANGED <<exitReason, sftp>>
    /\ consecutive_unchanged' = consecutive_unchanged + 1
    /\ UNCHANGED <<last_content_hash, last_activity_time, end_time, timeout,
                   game_timeout, fs, xfer, readerSaw, histCap, lastNewAt,
                   observed, published>>
    /\ UNCHANGED notSync

\* sftp.get raises FileNotFoundError.
GetNotFound ==
    /\ pc = "get"
    /\ \E d \in 0..MaxGetTicks :
          /\ now' = now + d
          /\ IF InactiveTooLong(now + d)
             THEN pc' = "done" /\ exitReason' = "inactive" /\ sftp' = ChannelAtExit
             ELSE pc' = "sleep" /\ UNCHANGED <<exitReason, sftp>>
    /\ UNCHANGED <<last_content_hash, last_activity_time,
                   consecutive_unchanged, end_time, timeout, game_timeout,
                   fs, xfer, readerSaw, histCap, lastNewAt, observed,
                   published>>
    /\ UNCHANGED notSync

\* A transfer error that is handled like a missing file: the loop goes on.
GetErrorRetried ==
    /\ pc \in {"get", "xfer"}
    /\ pc' = "sleep"
    /\ xfer' = NoFile
    /\ UNCHANGED <<now, last_content_hash, last_activity_time,
                   consecutive_unchanged, end_time, timeout, game_timeout,
                   fs, sftp, exitReason, readerSaw, histCap, lastNewAt,
                   observed, published>>
    /\ UNCHANGED notSync

\* sftp.get raises anything else (before or during the transfer): caught by
\* the except Exception around the loop.
GetError ==
    /\ pc \in {"get", "xfer"}
    /\ pc' = "done"
    /\ sftp' = ChannelAtExit
    /\ exitReason' = "error"
    /\ xfer' = NoFile
    /\ UNCHANGED <<now, last_content_hash, last_activity_time,
                   consecutive_unchanged, end_time, timeout, game_timeout,
                   fs, readerSaw, histCap, lastNewAt, observed, published>>
    /\ UNCHANGED notSync

\* sftp.get opens the remote file and the local file it writes.
GetStart ==
    /\ pc = "get"
    /\ \E c \in RemoteContents : xfer' = c
    /\ fs' = [fs EXCEPT ![GetLocalPath] = Empty]
    /\ pc' = "xfer"
    /\ UNCHANGED <<now, last_content_hash, last_activity_time,
                   consecutive_unchanged, end_time, timeout, game_timeout,
                   sftp, exitReason, readerSaw, histCap, lastNewAt, observed,
                   published>>
    /\ UNCHANGED notSync

\* sftp.get writes the next chunk.
GetChunk ==
    /\ pc = "xfer"
    /\ fs[GetLocalPath].n < xfer.n
    /\ fs' = [fs EXCEPT ![GetLocalPath] = Trunc(xfer, fs[GetLocalPath].n + 1)]
    /\ UNCHANGED <<pc, now, last_content_hash, last_activity_time,
                   consecutive_unchanged, end_time, timeout, game_timeout,
                   xfer, sftp, exitReason, readerSaw, histCap, lastNewAt,
                   observed, published>>
    /\ UNCHANGED notSync

\* sftp.get returns.
GetDone ==
    /\ pc = "xfer"
    /\ fs[GetLocalPath].n = xfer.n
    /\ \E d \in 0..MaxGetTicks : now' = now + d
    /\ xfer' = NoFile
    /\ pc' = "parse"
    /\ UNCHANGED <<last_content_hash, last_activity_time,
                   consecutive_unchanged, end_time, timeout, game_timeout,
                   fs, sftp, exitReason, readerSaw, histCap, lastNewAt,
                   observed, published>>
    /\ UNCHANGED notSync

\* The history of a parseable observation with hash h; pub tells whether it
\* was moved into the target file.
Record(h, pub) ==
    IF Len(observed) < histCap
    THEN /\ observed' = Append(observed, h)
         /\ published' = IF pub THEN Append(published, h) ELSE published
    ELSE UNCHANGED <<observed, published>>

\* A comparison that takes every blob for a new one.
HashAlwaysChanged(h) == TRUE

\* if current_hash != last_content_hash
HashChanged(h) == h # last_content_hash

\* An activity time that is never refreshed.
ActivityKept == last_activity_time

\* last_activity_time = time.time(), on every blob that parsed.
ActivityOnParse == now

\* json.load succeeded and the hash differs: publish.
ProcessChanged ==
    /\ pc = "parse"
    /\ Parseable(fs[TempFile])
    /\ HashChanged(Hash(fs[TempFile]))
    /\ last_activity_time' = ActivityOnParse
    /\ last_content_hash' = Hash(fs[TempFile])
    /\ consecutive_unchanged' = 0
    /\ fs' = Move(fs, TempFile, TargetFile)
    /\ lastNewAt' = now
    /\ Record(Hash(fs[TempFile]), TRUE)
    /\ pc' = "sleep"
    /\ UNCHANGED <<now, end_time, timeout, game_timeout, xfer, sftp,
                   exitReason, readerSaw, histCap>>
    /\ UNCHANGED notSync

\* json.load succeeded and the hash is the last published one.
ProcessUnchanged ==
    /\ pc = "parse"
    /\ Parseable(fs[TempFile])
    /\ ~HashChanged(Hash(fs[TempFile]))
    /\ last_activity_time' = ActivityOnParse
    /\ consecutive_unchanged' = consecutive_unchanged + 1
    /\ Record(Hash(fs[TempFile]), FALSE)
    /\ pc' = "sleep"
    /\ UNCHANGED <<now, last_content_hash, end_time, timeout, game_timeout,
                   fs, xfer, sftp, exitReason, readerSaw, histCap, lastNewAt>>
    /\ UNCHANGED notSync

\* A poll without the JSON check: the unparseable download is published.
ProcessMalformedPublished ==
    /\ pc = "parse"
    /\ ~Parseable(fs[TempFile])
    /\ consecutive_unchanged' = 0
    /\ fs' = Move(fs, TempFile, TargetFile)
    /\ pc' = "sleep"
    /\ UNCHANGED <<now, last_content_hash, last_activity_time, end_time,
                   timeout, game_timeout, xfer, sftp, exitReason, readerSaw,
                   histCap, lastNewAt, observed, published>>
    /\ UNCHANGED notSync

\* except json.JSONDecodeError
ProcessMalformed ==
    /\ pc = "parse"
    /\ ~Parseable(fs[TempFile])
    /\ consecutive_unchanged' = consecutive_unchanged + 1
    /\ pc' = "sleep"
    /\ UNCHANGED <<now, last_content_hash, last_activity_time, end_time,
                   timeout, game_timeout, fs, xfer, sftp, exitReason,
                   readerSaw, histCap, lastNewAt, observed, published>>
    /\ UNCHANGED notSync

\* time.sleep(0.5)
Sleep ==
    /\ pc = "sleep"
    /\ now' = now + SleepTicks
    /\ pc' = "test"
    /\ UNCHANGED <<last_content_hash, last_activity_time,
                   consecutive_unchanged, end_time, timeout, game_timeout,
                   fs, xfer, sftp, exitReason, readerSaw, histCap, lastNewAt,
                   observed, published>>
    /\ UNCHANGED notSync

\* The task running the loop is cancelled: CancelledError is raised at the
\* await it is suspended in (the transfer, the load of the file, the sleep);
\* except Exception does not catch it, the finally clause runs.
Cancelled ==
    /\ pc \in {"get", "xfer", "parse", "sleep"}
    /\ pc' = "done"
    /\ sftp' = ChannelAtExit
    /\ exitReason' = "cancelled"
    /\ UNCHANGED <<now, last_content_hash, last_activity_time,
                   consecutive_unchanged, end_time, timeout, game_timeout,
                   fs, xfer, readerSaw, histCap, lastNewAt, observed,
                   published>>
    /\ UNCHANGED notSync

\* The monitor opens and reads the published file.
MonitorRead ==
    /\ readerSaw' = fs[TargetFile]
    /\ UNCHANGED <<pc, now, last_content_hash, last_activity_time,
                   consecutive_unchanged, end_time, timeout, game_timeout,
                   fs, xfer, sftp, exitReason, histCap, lastNewAt, observed,
                   published>>
    /\ UNCHANGED notSync


(***************************************************************************)
(* main up to the gather call.                                             *)
(***************************************************************************)
\* snapshot, clones = base_instance.branch(count=len(game_ids)): the
\* provider returns some number of handles.
Branch ==
    /\ mainPc = "branch"
    /\ \E k \in 0..MaxClones :
          /\ nClones' = k
          /\ clones' = ListOf([j \in 1..k |-> Instance(j)])
    /\ mainPc' = "metadata"
    /\ UNCHANGED <<task, repl, cancelReq, scriptPc, meta, play_chess_tasks,
                   sync_gamestate_tasks, persist_instances,
                   persist_snapshots, instances, snapshots, stops, deletes>>
    /\ UNCHANGED notOrch

\* base_instance.branch raises.
BranchFail ==
    /\ mainPc = "branch"
    /\ mainPc' = "raised"
    /\ UNCHANGED <<task, repl, cancelReq>>
    /\ UNCHANGED scriptVars
    /\ UNCHANGED notOrch

\* Every file with the handle of the last clone.
MetadataOfLastClone(z, i) ==
    [instance_id |-> IdOf(z[Len(z)].c), game_id |-> z[i].g,
     strategy |-> z[i].s]

\* metadata = {"instance_id": clones.id, "game_id": game_id,
\* "strategy": strategy} in the i-th iteration of the loop over z.
Metadata(z, i) ==
    [instance_id |-> IdOf(z[i].c), game_id |-> z[i].g, strategy |-> z[i].s]

\* for game_id, clones, strategy in zip(game_ids, clones, strategies): one
\* metadata file per iteration; the loop variable is the name clones, which
\* is left bound to the last handle the loop visited.
WriteMetadata ==
    /\ mainPc = "metadata"
    /\ LET z == Zip(clones.list, game_ids, strategies)
       IN  /\ meta' = [i \in 1..Len(z) |-> Metadata(z, i)]
           /\ clones' = IF Len(z) = 0 THEN clones
                        ELSE OneInstance(z[Len(z)].c)
    /\ mainPc' = "lists"
    /\ UNCHANGED <<task, repl, cancelReq, scriptPc, nClones,
                   play_chess_tasks, sync_gamestate_tasks, persist_instances,
                   persist_snapshots, instances, snapshots, stops, deletes>>
    /\ UNCHANGED notOrch

\* play_chess_tasks = list(zip(clones, game_ids, strategies));
\* sync_gamestate_tasks = list(zip(clones, game_ids)), with clones a list.
BuildListsOfList ==
    /\ mainPc = "lists"
    /\ clones.bound = "list"
    /\ play_chess_tasks' = Zip(clones.list, game_ids, strategies)
    /\ sync_gamestate_tasks' = Zip(clones.list, game_ids, game_ids)
    /\ mainPc' = "call"
    /\ UNCHANGED <<task, repl, cancelReq, scriptPc, nClones, clones, meta,
                   persist_instances, persist_snapshots, instances,
                   snapshots, stops, deletes>>
    /\ UNCHANGED notOrch

\* The same two lines with clones bound to one Instance: zip iterates the
\* Instance, which yields some elements.
BuildListsOfInstance ==
    /\ mainPc = "lists"
    /\ clones.bound = "Instance"
    /\ \E m \in 0..NWorkers, a \in BOOLEAN :
          LET e == [i \in 1..m |-> Element(clones.inst, i, a)]
          IN  /\ play_chess_tasks' = Zip(e, game_ids, strategies)
              /\ sync_gamestate_tasks' = Zip(e, game_ids, game_ids)
    /\ mainPc' = "call"
    /\ UNCHANGED <<task, repl, cancelReq, scriptPc, nClones, clones, meta,
                   persist_instances, persist_snapshots, instances,
                   snapshots, stops, deletes>>
    /\ UNCHANGED notOrch

\* The same two lines with clones bound to one Instance that cannot be
\* iterated: zip raises TypeError.
BuildListsFail ==
    /\ mainPc = "lists"
    /\ clones.bound = "Instance"
    /\ mainPc' = "raised"
    /\ UNCHANGED <<task, repl, cancelReq>>
    /\ UNCHANGED scriptVars
    /\ UNCHANGED notOrch

\* The arguments of the gather call can be evaluated: every c has an id.
ArgsHaveIds ==
    /\ \A i \in 1..Len(play_chess_tasks) : play_chess_tasks[i].c.hasId
    /\ \A i \in 1..Len(sync_gamestate_tasks) : sync_gamestate_tasks[i].c.hasId

\* asyncio.gather(*[play_chess(client, c.id, g, NUM_MOVES, s) ...],
\* *[sync_gamestate(client, c.id, g) ...]) is called: one task per
\* coroutine.
GatherCall ==
    /\ mainPc = "call"
    /\ ArgsHaveIds
    /\ task' = [w \in Workers |->
                   IF w <= Len(play_chess_tasks) THEN "pending" ELSE "none"]
    /\ repl' = [w \in Workers |->
                   IF w <= Len(sync_gamestate_tasks) THEN "pending"
                   ELSE "none"]
    /\ mainPc' = "gather"
    /\ UNCHANGED cancelReq
    /\ UNCHANGED scriptVars
    /\ UNCHANGED notOrch

\* c.id raises AttributeError while the arguments are evaluated.
GatherCallFail ==
    /\ mainPc = "call"
    /\ ~ArgsHaveIds
    /\ mainPc' = "raised"
    /\ UNCHANGED <<task, repl, cancelReq>>
    /\ UNCHANGED scriptVars
    /\ UNCHANGED notOrch

(***************************************************************************)
(* The orchestrator's tasks.                                               *)
(***************************************************************************)
Terminal == {"done", "raised", "cancelled"}

\* The workers whose task and replicator the gather call created.
Started == {w \in Workers : task[w] # "none"}

\* A coroutine is inside a call that is not awaited and that waits for the
\* provider or the instance: client.instances.get (play_chess line 14,
\* sync_gamestate line 27) or ssh._client.open_sftp() (line 43).
InSyncCall(w) == task[w] = "lookup" \/ repl[w] \in {"lookup", "opening"}

\* The event loop runs one coroutine at a time, from one await to the next:
\* it starts or resumes a coroutine only when no other is inside a call.
LoopFree == \A w \in Workers : ~InSyncCall(w)

\* play_chess is started by the loop and calls client.instances.get(...).
TaskStart(w) ==
    /\ task[w] = "pending"
    /\ ~cancelReq
    /\ LoopFree
    /\ task' = [task EXCEPT ![w] = "lookup"]
    /\ UNCHANGED <<repl, mainPc, cancelReq>>
    /\ UNCHANGED scriptVars
    /\ UNCHANGED notOrch

\* client.instances.get returns and play_chess reaches await
\* instance.aexec(...), or the call raises.
TaskLookup(w) ==
    /\ task[w] = "lookup"
    /\ \E s \in {"running", "raised"} : task' = [task EXCEPT ![w] = s]
    /\ UNCHANGED <<repl, mainPc, cancelReq>>
    /\ UNCHANGED scriptVars
    /\ UNCHANGED notOrch

\* instance.aexec returns: the remote agent has ended.
TaskFinish(w) ==
    /\ task[w] = "running"
    /\ ~cancelReq
    /\ LoopFree
    /\ task' = [task EXCEPT ![w] = "done"]
    /\ UNCHANGED <<repl, mainPc, cancelReq>>
    /\ UNCHANGED scriptVars
    /\ UNCHANGED notOrch

\* instance.aexec raises.
TaskFail(w) ==
    /\ task[w] = "running"
    /\ ~cancelReq
    /\ LoopFree
    /\ task' = [task EXCEPT ![w] = "raised"]
    /\ UNCHANGED <<repl, mainPc, cancelReq>>
    /\ UNCHANGED scriptVars
    /\ UNCHANGED notOrch

\* sync_gamestate is started by the loop and calls
\* client.instances.get(...).
ReplStart(w) ==
    /\ repl[w] = "pending"
    /\ ~cancelReq
    /\ LoopFree
    /\ repl' = [repl EXCEPT ![w] = "lookup"]
    /\ UNCHANGED <<task, mainPc, cancelReq>>
    /\ UNCHANGED scriptVars
    /\ UNCHANGED notOrch

\* client.instances.get returns and sync_gamestate reaches its first await,
\* ssh_ = await asyncio.to_thread(instance.ssh), or the call raises.
ReplLookup(w) ==
    /\ repl[w] = "lookup"
    /\ \E s \in {"connecting", "raised"} : repl' = [repl EXCEPT ![w] = s]
    /\ UNCHANGED <<task, mainPc, cancelReq>>
    /\ UNCHANGED scriptVars
    /\ UNCHANGED notOrch

\* The thread running instance.ssh has returned: sync_gamestate is resumed,
\* enters with ssh_ as ssh and calls ssh._client.open_sftp().
ReplSsh(w) ==
    /\ repl[w] = "connecting"
    /\ ~cancelReq
    /\ LoopFree
    /\ repl' = [repl EXCEPT ![w] = "opening"]
    /\ UNCHANGED <<task, mainPc, cancelReq>>
    /\ UNCHANGED scriptVars
    /\ UNCHANGED notOrch

\* The channel is open: the polling loop is entered and reaches the await
\* of its first transfer.
ReplConnected(w) ==
    /\ repl[w] = "opening"
    /\ repl' = [repl EXCEPT ![w] = "polling"]
    /\ UNCHANGED <<task, mainPc, cancelReq>>
    /\ UNCHANGED scriptVars
    /\ UNCHANGED notOrch

\* instance.ssh or open_sftp raises, outside the try.
ReplConnectFail(w) ==
    /\ \/ repl[w] = "connecting" /\ ~cancelReq /\ LoopFree
       \/ repl[w] = "opening"
    /\ repl' = [repl EXCEPT ![w] = "raised"]
    /\ UNCHANGED <<task, mainPc, cancelReq>>
    /\ UNCHANGED scriptVars
    /\ UNCHANGED notOrch

\* The polling loop ends: deadline, unchanged limit, inactivity, or an error
\* caught by except Exception.
ReplEnd(w) ==
    /\ repl[w] = "polling"
    /\ ~cancelReq
    /\ LoopFree
    /\ repl' = [repl EXCEPT ![w] = "done"]
    /\ UNCHANGED <<task, mainPc, cancelReq>>
    /\ UNCHANGED scriptVars
    /\ UNCHANGED notOrch

\* await asyncio.gather(...): the first exception of a child is raised in
\* main; the other children are left running.
GatherRaise ==
    /\ mainPc = "gather"
    /\ LoopFree
    /\ \E w \in Workers : task[w] = "raised" \/ repl[w] = "raised"
    /\ mainPc' = "raised"
    /\ UNCHANGED <<task, repl, cancelReq>>
    /\ UNCHANGED scriptVars
    /\ UNCHANGED notOrch

\* A join that returns with the first child that has returned.
FirstChildAwaited ==
    \/ Started = {}
    \/ \E w \in Started : task[w] = "done" \/ repl[w] = "done"

\* The children gather waits for: all of them.
ChildrenAwaited ==
    \A w \in Started : task[w] = "done" /\ repl[w] = "done"

\* await asyncio.gather(...) returns when every child has returned.
GatherReturn ==
    /\ mainPc = "gather"
    /\ LoopFree
    /\ ChildrenAwaited
    /\ mainPc' = "returned"
    /\ UNCHANGED <<task, repl, cancelReq>>
    /\ UNCHANGED scriptVars
    /\ UNCHANGED notOrch

\* asyncio.run(main(...)): main has ended with an exception; the runner
\* cancels every task that is left before it closes the loop.
RunnerCancelAll ==
    /\ mainPc = "raised"
    /\ ~cancelReq
    /\ cancelReq' = TRUE
    /\ UNCHANGED <<task, repl, mainPc>>
    /\ UNCHANGED scriptVars
    /\ UNCHANGED notOrch

\* CancelledError is thrown into play_chess at its await (or before it has
\* started).
TaskCancelled(w) ==
    /\ cancelReq
    /\ w \in Started
    /\ task[w] \notin Terminal
    /\ LoopFree
    /\ task' = [task EXCEPT ![w] = "cancelled"]
    /\ UNCHANGED <<repl, mainPc, cancelReq>>
    /\ UNCHANGED scriptVars
    /\ UNCHANGED notOrch

\* CancelledError is thrown into sync_gamestate at its await; except
\* Exception does not catch it.
ReplCancelled(w) ==
    /\ cancelReq
    /\ w \in Started
    /\ repl[w] \notin Terminal
    /\ LoopFree
    /\ repl' = [repl EXCEPT ![w] = "cancelled"]
    /\ UNCHANGED <<task, mainPc, cancelReq>>
    /\ UNCHANGED scriptVars
    /\ UNCHANGED notOrch

(***************************************************************************)
(* The __main__ block: asyncio.run(main()) and the cleanup after it.       *)
(***************************************************************************)
\* client.instances.list(): the base instance and the clones of the run.
InstanceList == [i \in 1..(nClones + 1) |-> IdOf(Instance(i - 1))]

\* What one stop or delete call can do: return, raise ApiError, or raise
\* another exception (a transport error, say).
CallOutcomes == {"ok", "ApiError", "error"}

\* except ApiError as e: the exceptions the cleanup loops catch and log.
Caught(o) == o = "ApiError"

\* asyncio.run re-raises the exception of main once the cancelled tasks have
\* ended; nothing catches it, and the lines after it are not executed.
ScriptCrash ==
    /\ scriptPc = "run"
    /\ mainPc = "raised"
    /\ cancelReq
    /\ \A w \in Started : task[w] \in Terminal /\ repl[w] \in Terminal
    /\ scriptPc' = "crashed"
    /\ UNCHANGED <<nClones, clones, meta, play_chess_tasks,
                   sync_gamestate_tasks, persist_instances,
                   persist_snapshots, instances, snapshots, stops, deletes>>
    /\ UNCHANGED gatherVars
    /\ UNCHANGED notOrch

\* asyncio.run returns; if not args.persist_instances: instances =
\* client.instances.list().  With the flag set the loop is skipped.
CleanupBegin ==
    /\ scriptPc = "run"
    /\ mainPc = "returned"
    /\ instances' = IF persist_instances THEN <<>> ELSE InstanceList
    /\ scriptPc' = "stop_instances"
    /\ UNCHANGED <<nClones, clones, meta, play_chess_tasks,
                   sync_gamestate_tasks, persist_instances,
                   persist_snapshots, snapshots, stops, deletes>>
    /\ UNCHANGED gatherVars
    /\ UNCHANGED notOrch

\* One iteration of for instance in instances: try: instance.stop().
StopInstance ==
    /\ scriptPc = "stop_instances"
    /\ Len(stops) < Len(instances)
    /\ \E o \in CallOutcomes :
          /\ stops' = Append(stops, [id |-> instances[Len(stops) + 1],
                                     outcome |-> o])
          /\ scriptPc' = IF o = "ok" \/ Caught(o) THEN scriptPc
                         ELSE "crashed"
    /\ UNCHANGED <<nClones, clones, meta, play_chess_tasks,
                   sync_gamestate_tasks, persist_instances,
                   persist_snapshots, instances, snapshots, deletes>>
    /\ UNCHANGED gatherVars
    /\ UNCHANGED notOrch

\* The loop over the instances has ended; if not args.persist_snapshots:
\* snapshots = client.snapshots.list().
StopsDone ==
    /\ scriptPc = "stop_instances"
    /\ Len(stops) = Len(instances)
    /\ snapshots' = IF persist_snapshots THEN <<>> ELSE SnapshotIds
    /\ scriptPc' = "delete_snapshots"
    /\ UNCHANGED <<nClones, clones, meta, play_chess_tasks,
                   sync_gamestate_tasks, persist_instances,
                   persist_snapshots, instances, stops, deletes>>
    /\ UNCHANGED gatherVars
    /\ UNCHANGED notOrch

\* One iteration of for snapshot in snapshots: try: snapshot.delete().
DeleteSnapshot ==
    /\ scriptPc = "delete_snapshots"
    /\ Len(deletes) < Len(snapshots)
    /\ \E o \in CallOutcomes :
          /\ deletes' = Append(deletes, [id |-> snapshots[Len(deletes) + 1],
                                         outcome |-> o])
          /\ scriptPc' = IF o = "ok" \/ Caught(o) THEN scriptPc
                         ELSE "crashed"
    /\ UNCHANGED <<nClones, clones, meta, play_chess_tasks,
                   sync_gamestate_tasks, persist_instances,
                   persist_snapshots, instances, snapshots, stops>>
    /\ UNCHANGED gatherVars
    /\ UNCHANGED notOrch

\* The loop over the snapshots has ended: the script ends.
DeletesDone ==
    /\ scriptPc = "delete_snapshots"
    /\ Len(deletes) = Len(snapshots)
    /\ scriptPc' = "exit"
    /\ UNCHANGED <<nClones, clones, meta, play_chess_tasks,
                   sync_gamestate_tasks, persist_instances,
                   persist_snapshots, instances, snapshots, stops, deletes>>
    /\ UNCHANGED gatherVars
    /\ UNCHANGED notOrch

OrchNext ==
    \/ Branch
    \/ BranchFail
    \/ WriteMetadata
    \/ BuildListsOfList
    \/ BuildListsOfInstance
    \/ BuildListsFail
    \/ GatherCall
    \/ GatherCallFail
    \/ \E w \in Workers : TaskStart(w)
    \/ \E w \in Workers : TaskLookup(w)
    \/ \E w \in Workers : TaskFinish(w)
    \/ \E w \in Workers : TaskFail(w)
    \/ \E w \in Workers : ReplStart(w)
    \/ \E w \in Workers : ReplLookup(w)
    \/ \E w \in Workers : ReplSsh(w)
    \/ \E w \in Workers : ReplConnected(w)
    \/ \E w \in Workers : ReplConnectFail(w)
    \/ \E w \in Workers : ReplEnd(w)
    \/ GatherRaise
    \/ GatherReturn
    \/ RunnerCancelAll
    \/ \E w \in Workers : TaskCancelled(w)
    \/ \E w \in Workers : ReplCancelled(w)
    \/ ScriptCrash
    \/ CleanupBegin
    \/ StopInstance
    \/ StopsDone
    \/ DeleteSnapshot
    \/ DeletesDone

(***************************************************************************)
(* The monitor: the files it watches, its monitoring thread, and the       *)
(* callbacks the Tk main thread runs.                                      *)
(***************************************************************************)
\* A replicator (or anyone) replaces game file g.
WriteGameFile(g) ==
    /\ \E c \in GameFileContents \ {NoFile, disk[g]} :
          disk' = [disk EXCEPT ![g] = c]
    /\ UNCHANGED <<metaFile, mnow, scanAt, after, running, last_modified,
                   game_state_hashes, game_last_seen, displayed_games,
                   boards, game_info, game_frames, rearranged, shownAt>>
    /\ UNCHANGED notMon

\* Game file g is removed.
DeleteGameFile(g) ==
    /\ disk[g] # NoFile
    /\ disk' = [disk EXCEPT ![g] = NoFile]
    /\ UNCHANGED <<metaFile, mnow, scanAt, after, running, last_modified,
                   game_state_hashes, game_last_seen, displayed_games,
                   boards, game_info, game_frames, rearranged, shownAt>>
    /\ UNCHANGED notMon

\* The orchestrator writes chess_autosaves/metadata_game_id_<g>.json for
\* every game of its run.
WriteMetadataFiles ==
    /\ ~metaFile
    /\ metaFile' = TRUE
    /\ UNCHANGED <<disk, mnow, scanAt, after, running, last_modified,
                   game_state_hashes, game_last_seen, displayed_games,
                   boards, game_info, game_frames, rearranged, shownAt>>
    /\ UNCHANGED notMon

\* A second passes; the monitoring thread does not oversleep, and the main
\* loop, idle between callbacks, has taken the callbacks scheduled for it
\* (the one it took last may still be in progress).
MonTick ==
    /\ mnow < MaxMonTime
    /\ mnow < scanAt
    /\ after = <<>>
    /\ mnow' = mnow + 1
    /\ UNCHANGED <<disk, metaFile, scanAt, after, running, last_modified,
                   game_state_hashes, game_last_seen, displayed_games,
                   boards, game_info, game_frames, rearranged, shownAt>>
    /\ UNCHANGED notMon

\* monitor_files: the test that a file's content has changed, made with
\* the game id that monitor_files derives from the file name.
ContentChanged(g) ==
    \/ ScanKey(g) \notin DOMAIN game_state_hashes
    \/ game_state_hashes[ScanKey(g)] # Hash(disk[g])

\* One cycle of monitor_files: find_game_files, one update scheduled for
\* each file whose content has changed, check_for_missing_games scheduled,
\* then time.sleep(refresh_rate).  The main loop has taken the callbacks of
\* the cycle before; one of them may still be in progress.
\* find_game_files also stores the time under the ScanKey of each file it
\* meets for the first time; no displayed game has such a key (they are
\* DisplayKeys) and nothing reads those entries: they are not kept here.
MonitorCycle ==
    /\ mnow >= scanAt
    /\ after = <<>>
    /\ LET files == Sorted(GameFiles)
           cols == Min(MaxCols, Len(files))
           new == {g \in GameFiles : g \notin last_modified}
           upd == [i \in 1..Len(files) |->
                      [op |-> "update", g |-> files[i], idx |-> i - 1,
                       cols |-> cols]]
           due == SelectSeq(upd, LAMBDA u : ContentChanged(u.g))
       IN  /\ last_modified' = last_modified \cup new
           /\ after' = Append(due, [op |-> "check", g |-> 0, idx |-> 0,
                                    cols |-> 0])
    /\ scanAt' = mnow + RefreshRate
    /\ UNCHANGED <<disk, metaFile, mnow, running, game_state_hashes,
                   game_last_seen, displayed_games, boards, game_info,
                   game_frames, rearranged, shownAt>>
    /\ UNCHANGED notMon

\* Callbacks run by whichever thread has them, at once.
AnyThreadRuns == TRUE

\* self.root.after(0, f) hands f to the Tk main loop (self.root.mainloop),
\* which runs in one thread: it calls the next callback when the one before
\* has returned.
MainThreadFree == running = <<>>

\* The main loop calls the callback at the head of the queue, which runs its
\* first statements: create_or_update_game_display derives the game id and
\* sets its last-seen time, check_for_missing_games reads the clock.
CallbackBegin ==
    /\ after # <<>>
    /\ MainThreadFree
    /\ running' = Append(running, [op |-> after[1].op, g |-> after[1].g,
                                   idx |-> after[1].idx,
                                   cols |-> after[1].cols, t |-> mnow])
    /\ after' = Tail(after)
    /\ game_last_seen' =
           IF after[1].op = "update"
           THEN Put(game_last_seen, DisplayKey(after[1].g), mnow)
           ELSE game_last_seen
    /\ UNCHANGED <<disk, metaFile, mnow, scanAt, last_modified,
                   game_state_hashes, displayed_games, boards, game_info,
                   game_frames, rearranged, shownAt>>
    /\ UNCHANGED notMon

\* A display that is refreshed whatever the recorded hash.
StateNeverUnchanged(k, h) == FALSE

\* if game_id in self.game_state_hashes and
\*    self.game_state_hashes[game_id] == current_hash
StateUnchanged(k, h) ==
    k \in DOMAIN game_state_hashes /\ game_state_hashes[k] = h

\* The callback in progress is create_or_update_game_display.
UpdateDue == running # <<>> /\ running[1].op = "update"

\* create_or_update_game_display returns early: the file is gone (no hash),
\* or its hash is the recorded one.
UpdateSkipped ==
    /\ UpdateDue
    /\ LET g == running[1].g
           k == DisplayKey(g)
       IN  disk[g] = NoFile \/ StateUnchanged(k, Hash(disk[g]))
    /\ running' = Tail(running)
    /\ rearranged' = FALSE
    /\ UNCHANGED <<disk, metaFile, mnow, scanAt, after, last_modified,
                   game_state_hashes, game_last_seen, displayed_games,
                   boards, game_info, game_frames, shownAt>>
    /\ UNCHANGED notMon

\* create_or_update_game_display records the new hash and then finds the
\* file empty or not JSON: it returns.
UpdateUnreadable ==
    /\ UpdateDue
    /\ LET g == running[1].g
           k == DisplayKey(g)
       IN  /\ disk[g] # NoFile
           /\ ~StateUnchanged(k, Hash(disk[g]))
           /\ ~JsonDocument(disk[g])
           /\ game_state_hashes' = Put(game_state_hashes, k, Hash(disk[g]))
    /\ running' = Tail(running)
    /\ rearranged' = FALSE
    /\ UNCHANGED <<disk, metaFile, mnow, scanAt, after, last_modified,
                   game_last_seen, displayed_games, boards, game_info,
                   game_frames, shownAt>>
    /\ UNCHANGED notMon

\* create_or_update_game_display on a changed file of a displayed game: the
\* board and the info are replaced, the frame stays where it is.
UpdateInPlace ==
    /\ UpdateDue
    /\ LET g == running[1].g
           k == DisplayKey(g)
       IN  /\ disk[g] # NoFile
           /\ ~StateUnchanged(k, Hash(disk[g]))
           /\ JsonDocument(disk[g])
           /\ ValidFen(disk[g])
           /\ k \in displayed_games
           /\ game_state_hashes' = Put(game_state_hashes, k, Hash(disk[g]))
           /\ boards' = Put(boards, k, BoardOf(disk[g]))
           /\ game_info' = Put(game_info, k, InfoOf(g, disk[g]))
           /\ shownAt' = [shownAt EXCEPT ![g] = running[1].t]
    /\ running' = Tail(running)
    /\ rearranged' = FALSE
    /\ UNCHANGED <<disk, metaFile, mnow, scanAt, after, last_modified,
                   game_last_seen, displayed_games, game_frames>>
    /\ UNCHANGED notMon

\* create_or_update_game_display on a file of a game not displayed: a new
\* frame is put in the cell computed from the index and the column count
\* the monitoring thread passed.
UpdateInsert ==
    /\ UpdateDue
    /\ LET g == running[1].g
           k == DisplayKey(g)
       IN  /\ disk[g] # NoFile
           /\ ~StateUnchanged(k, Hash(disk[g]))
           /\ JsonDocument(disk[g])
           /\ ValidFen(disk[g])
           /\ k \notin displayed_games
           /\ game_state_hashes' = Put(game_state_hashes, k, Hash(disk[g]))
           /\ game_frames' =
                  Put(game_frames, k, Cell(running[1].idx, running[1].cols))
           /\ boards' = Put(boards, k, BoardOf(disk[g]))
           /\ game_info' = Put(game_info, k, InfoOf(g, disk[g]))
           /\ displayed_games' = displayed_games \cup {k}
           /\ shownAt' = [shownAt EXCEPT ![g] = running[1].t]
    /\ running' = Tail(running)
    /\ rearranged' = FALSE
    /\ UNCHANGED <<disk, metaFile, mnow, scanAt, after, last_modified,
                   game_last_seen>>
    /\ UNCHANGED notMon

\* A removal test that fires at the timeout itself.
SeenTooLongAgoOrAtTimeout(t, seen) == t - seen >= MonGameTimeout

\* if time_since_last_seen > self.game_timeout
SeenTooLongAgo(t, seen) == t - seen > MonGameTimeout

\* del d[k] for every k of K that d holds.
DelAll(d, K) == [x \in (DOMAIN d) \ K |-> d[x]]

\* rearrange_boards: the displayed games, sorted, are put in the grid in
\* order.
RearrangeBoards(frames, shown) ==
    LET n == Cardinality(shown)
        cols == Min(MaxCols, n)
        rank(k) == Cardinality({x \in shown : x.n < k.n})
    IN  [x \in DOMAIN frames |->
            IF x \in shown THEN Cell(rank(x), cols) ELSE frames[x]]

\* check_for_missing_games: every displayed game not seen for longer than
\* game_timeout at the time the check read the clock is removed; if any was
\* removed the boards are rearranged.
CheckForMissingGames ==
    /\ running # <<>>
    /\ running[1].op = "check"
    /\ LET gone == {k \in displayed_games :
                       \/ k \notin DOMAIN game_last_seen
                       \/ SeenTooLongAgo(running[1].t, game_last_seen[k])}
       IN  /\ displayed_games' = displayed_games \ gone
           /\ boards' = DelAll(boards, gone)
           /\ game_info' = DelAll(game_info, gone)
           /\ game_state_hashes' = DelAll(game_state_hashes, gone)
           /\ game_frames' =
                  IF gone = {} THEN game_frames
                  ELSE RearrangeBoards(DelAll(game_frames, gone),
                                       displayed_games \ gone)
           /\ rearranged' = (gone # {})
           /\ shownAt' = [g \in GameIds |->
                             IF DisplayKey(g) \in gone THEN 0 ELSE shownAt[g]]
    /\ running' = Tail(running)
    /\ UNCHANGED <<disk, metaFile, mnow, scanAt, after, last_modified,
                   game_last_seen>>
    /\ UNCHANGED notMon

MonNext ==
    \/ \E g \in Games : WriteGameFile(g)
    \/ \E g \in Games : DeleteGameFile(g)
    \/ WriteMetadataFiles
    \/ MonTick
    \/ MonitorCycle
    \/ CallbackBegin
    \/ UpdateSkipped
    \/ UpdateUnreadable
    \/ UpdateInPlace
    \/ UpdateInsert
    \/ CheckForMissingGames

SyncNext ==
    \/ ConnectOk
    \/ ConnectFail
    \/ LoopEnter
    \/ LoopExit
    \/ GetNotFound
    \/ GetError
    \/ GetStart
    \/ GetChunk
    \/ GetDone
    \/ ProcessChanged
    \/ ProcessUnchanged
    \/ ProcessMalformed
    \/ Sleep

\* One replicator on its own.
Next == SyncNext

Spec == Init /\ [][Next]_vars

\* The loop is run by one thread (one task): it takes its next step whenever
\* it has one.
FairSpec == Spec /\ WF_vars(Next)

\* Short runs with the monitor reading the published file at any moment and
\* with the history of observations recorded.
NextPub == SyncNext \/ MonitorRead

SpecPub == InitPub /\ [][NextPub]_vars

FairSpecPub == SpecPub /\ WF_vars(SyncNext)

\* One replicator as a task that can be cancelled at any of its awaits.
NextCancel == SyncNext \/ Cancelled

SpecCancel == Init /\ [][NextCancel]_vars

\* The monitor and the files it watches.
NextMon == MonNext

SpecMon == Init /\ [][NextMon]_vars

\* The monitor with the files of NGridGames games.
GridNext ==
    \/ \E g \in GridGames : WriteGameFile(g)
    \/ \E g \in GridGames : DeleteGameFile(g)
    \/ WriteMetadataFiles
    \/ MonTick
    \/ MonitorCycle
    \/ CallbackBegin
    \/ UpdateSkipped
    \/ UpdateUnreadable
    \/ UpdateInPlace
    \/ UpdateInsert
    \/ CheckForMissingGames

NextGrid == GridNext

SpecGrid == Init /\ [][NextGrid]_vars

\* The orchestrator's tasks under asyncio.run.
NextOrch == OrchNext

SpecOrch == InitOrch /\ [][NextOrch]_vars

\* Every step of the script and its tasks except the end of a remote
\* command: instance.aexec returns or raises when the remote agent ends,
\* which nothing in the orchestrator brings about.
OrchProgress ==
    \/ Branch
    \/ BranchFail
    \/ WriteMetadata
    \/ BuildListsOfList
    \/ BuildListsOfInstance
    \/ BuildListsFail
    \/ GatherCall
    \/ GatherCallFail
    \/ \E w \in Workers : TaskStart(w)
    \/ \E w \in Workers : TaskLookup(w)
    \/ \E w \in Workers : ReplStart(w)
    \/ \E w \in Workers : ReplLookup(w)
    \/ \E w \in Workers : ReplSsh(w)
    \/ \E w \in Workers : ReplConnected(w)
    \/ \E w \in Workers : ReplConnectFail(w)
    \/ \E w \in Workers : ReplEnd(w)
    \/ GatherRaise
    \/ GatherReturn
    \/ RunnerCancelAll
    \/ \E w \in Workers : TaskCancelled(w)
    \/ \E w \in Workers : ReplCancelled(w)
    \/ ScriptCrash
    \/ CleanupBegin
    \/ StopInstance
    \/ StopsDone
    \/ DeleteSnapshot
    \/ DeletesDone

\* The event loop runs whatever is ready; a remote command may never end.
FairSpecOrch == SpecOrch /\ WF_vars(OrchProgress)

(***************************************************************************)
(* Claims about the replicator.                                            *)
(***************************************************************************)
Last(s) == s[Len(s)]

\* The step that ends a poll in which sftp.get raised FileNotFoundError.
NotFoundStep ==
    pc = "get" /\ pc' \in {"sleep", "done"} /\ exitReason' # "error"

\* The step that ends a poll in which sftp.get raised another error.
TransferErrorStep ==
    /\ pc \in {"get", "xfer"}
    /\ pc' \notin {"get", "xfer", "parse"}
    /\ ~NotFoundStep

\* The step that handles a downloaded file.
ProcessStep == pc = "parse" /\ pc' # "parse"

\* C1: the hashes moved into the publish file are the hashes of the
\* parseable blobs retrieved, in order, with the repeats of the last
\* published hash removed; while every observation is on record the publish
\* file holds the blob of the last of them and last_content_hash is its hash.
C1_PublishedIsDedupObserved ==
    /\ published = Dedup(observed)
    /\ Len(observed) < histCap =>
          IF published = <<>>
          THEN fs[TargetFile] = NoFile /\ last_content_hash = NoHash
          ELSE /\ Parseable(fs[TargetFile])
               /\ Hash(fs[TargetFile]) = Last(published)
               /\ last_content_hash = Last(published)

\* A repeated hash was retrieved and not republished, and a later different
\* one was published.
C1_Witness ==
    /\ Len(published) >= 2
    /\ Len(observed) > Len(published)
    /\ Last(observed) = Last(published)

\* C2: whatever the monitor reads from the publish file, at any moment of a
\* poll, is a complete parseable blob (or no file yet): the publish file
\* changes only by the move of a temp file that parsed, and a read returns
\* the publish file as it is.
C2_ReaderSeesWholeBlob ==
    [][ /\ readerSaw' = NoFile \/ Parseable(readerSaw')
        /\ fs'[TargetFile] = NoFile \/ Parseable(fs'[TargetFile])
        /\ fs'[TargetFile] # fs[TargetFile] =>
              /\ pc = "parse"
              /\ Parseable(fs[TempFile])
              /\ fs'[TargetFile] = fs[TempFile]
        /\ readerSaw' # readerSaw => readerSaw' = fs[TargetFile] ]_vars

\* The monitor has read the previous blob while the next download is partly
\* written.
C2_Witness ==
    /\ pc = "xfer"
    /\ fs[TempFile].n > 0
    /\ fs[TempFile].n < BlobLen
    /\ Parseable(readerSaw)
    /\ readerSaw = fs[TargetFile]
    /\ readerSaw.id # fs[TempFile].id

\* C3 as claimed: last_activity_time changes only in a poll that publishes a
\* new fingerprint.
C3_ActivityOnlyOnChange ==
    [][last_activity_time' # last_activity_time =>
          last_content_hash' # last_content_hash]_vars

\* C3 as amended: last_activity_time is set to the current time by every poll
\* that retrieves a parseable blob, also by a no-op poll whose hash equals
\* last_content_hash; no other step changes it.
C3_ActivityOnEveryParsedPoll ==
    [][ IF ProcessStep /\ Parseable(fs[TempFile])
        THEN last_activity_time' = now
        ELSE last_activity_time' = last_activity_time ]_vars

\* A no-op poll has moved last_activity_time past the last change.
C3_Witness ==
    /\ last_content_hash # NoHash
    /\ consecutive_unchanged > 0
    /\ last_activity_time > lastNewAt

\* C4 as claimed: with no new fingerprint after t0 the replicator does not
\* stop for lack of change before t0 + game_timeout.
C4_NoStopBeforeThreshold ==
    (pc = "done" /\ exitReason \in {"inactive", "unchanged_limit"})
        => now >= lastNewAt + game_timeout

\* C4 as amended: the replicator stops on elapsed time (a poll that finds the
\* file missing) never before t0 + game_timeout; before that it stops for
\* lack of change only by the unchanged limit, consecutive_unchanged >
\* max_unchanged.
C4_NoTimedStopBeforeThreshold ==
    /\ (pc = "done" /\ exitReason = "inactive")
          => now >= lastNewAt + game_timeout
    /\ (pc = "done" /\ exitReason = "unchanged_limit")
          => consecutive_unchanged > MaxUnchanged

\* After a publish the file went missing and the replicator stopped on
\* elapsed time.
C4_Witness ==
    pc = "done" /\ exitReason = "inactive" /\ lastNewAt > 0

\* C5 as claimed: no poll ends with the loop going on although the time since
\* last_activity_time exceeds game_timeout.
C5_StopsWheneverElapsed ==
    ~(pc = "sleep" /\ now - last_activity_time > game_timeout)

\* C5 as amended: a poll that finds the file missing stops the replicator
\* exactly when the time since last_activity_time exceeds game_timeout; a
\* poll that retrieved a file, unchanged or malformed, never stops it; the
\* loop test stops it when consecutive_unchanged exceeds max_unchanged.
C5_StopsOnMissingOrLimit ==
    [][ /\ NotFoundStep =>
              (pc' = "done" <=> now' - last_activity_time > game_timeout)
        /\ ProcessStep => pc' = "sleep"
        /\ (pc = "test" /\ consecutive_unchanged > MaxUnchanged) =>
              pc' = "done" ]_vars

\* The replicator stopped by the unchanged limit before the deadline.
C5_Witness ==
    /\ pc = "done"
    /\ exitReason = "unchanged_limit"
    /\ now < end_time

\* C6: no poll starts at or after end_time = start + timeout, and the
\* replicator terminates.
C6_DeadlineEndsPolling ==
    /\ [][(pc = "test" /\ pc' = "get") => now < end_time]_vars
    /\ <>(pc = "done")

\* Every poll published a new fingerprint and the replicator stopped at the
\* deadline.
C6_Witness ==
    /\ pc = "done"
    /\ exitReason = "deadline"
    /\ consecutive_unchanged = 0
    /\ Len(published) = histCap
    /\ Len(observed) = histCap

\* C7: a poll whose download does not parse adds one to
\* consecutive_unchanged, leaves last_content_hash, last_activity_time and the
\* publish file as they are, and goes to the inter-poll delay, after which
\* the loop test is made.
C7_MalformedCountsAsUnchanged ==
    [][ /\ (ProcessStep /\ ~Parseable(fs[TempFile])) =>
              /\ consecutive_unchanged' = consecutive_unchanged + 1
              /\ last_content_hash' = last_content_hash
              /\ last_activity_time' = last_activity_time
              /\ fs'[TargetFile] = fs[TargetFile]
              /\ pc' = "sleep"
        /\ pc = "sleep" => (pc' = "test" /\ now' = now + SleepTicks)
        /\ (pc = "test" /\ now < end_time
               /\ consecutive_unchanged <= MaxUnchanged) => pc' = "get" ]_vars

\* After a malformed poll the next poll has started and the published copy
\* is still the good one.
C7_Witness ==
    /\ pc = "get"
    /\ fs[TempFile] # NoFile
    /\ ~Parseable(fs[TempFile])
    /\ consecutive_unchanged > 0
    /\ Parseable(fs[TargetFile])

\* C8: a poll that finds the file missing leaves consecutive_unchanged,
\* last_content_hash and last_activity_time as they are and stops the
\* replicator only if the time since last_activity_time exceeds game_timeout;
\* the first blob that parses is published.
C8_NotFoundKeepsState ==
    [][ /\ NotFoundStep =>
              /\ consecutive_unchanged' = consecutive_unchanged
              /\ last_content_hash' = last_content_hash
              /\ last_activity_time' = last_activity_time
              /\ pc' = "done" => now' - last_activity_time > game_timeout
        /\ (ProcessStep /\ Parseable(fs[TempFile])
               /\ last_content_hash = NoHash) =>
              /\ fs'[TargetFile] = fs[TempFile]
              /\ last_content_hash' = Hash(fs[TempFile]) ]_vars

\* Number of polls that find the file missing before it appears.
MissingPolls == 5

\* The file was missing for at least MissingPolls polls (nothing was counted
\* and nothing published, and more time has passed than MissingPolls polls
\* can take less one), then it appeared and parsed.
C8_Witness ==
    /\ pc = "parse"
    /\ Parseable(fs[TempFile])
    /\ last_content_hash = NoHash
    /\ consecutive_unchanged = 0
    /\ last_activity_time = 0
    /\ now >= MaxConnTicks + MissingPolls * (SleepTicks + MaxGetTicks)
    /\ now <= game_timeout

C10_ErrorsStayWithTheirWorker ==
    \A v, w \in Workers :
        (v # w /\ (task[v] = "raised" \/ repl[v] = "raised")) =>
            (task[w] # "cancelled" /\ repl[w] # "cancelled")

\* Every task and replicator that was started has ended.
AllChildrenTerminal ==
    \A w \in Started : task[w] \in Terminal /\ repl[w] \in Terminal

\* A teardown step has run or can run: the script is in its cleanup loops,
\* or a stop or a delete has been attempted.
InTeardown ==
    \/ scriptPc \in {"stop_instances", "delete_snapshots"}
    \/ Len(stops) > 0
    \/ Len(deletes) > 0

\* C11: the gather in main returns only when every task and replicator it
\* started is in a terminal state, and no teardown step (instance stop,
\* snapshot delete) runs while one of them is still running.
C11_JoinBeforeTeardown ==
    /\ [](InTeardown => AllChildrenTerminal)
    /\ [][(mainPc = "gather" /\ mainPc' = "returned")
              => AllChildrenTerminal]_vars

\* Teardown has stopped an instance after a gather over two workers or more.
C11_Witness ==
    /\ scriptPc = "stop_instances"
    /\ Len(stops) > 0
    /\ Cardinality(Started) >= 2
    /\ mainPc = "returned"

\* The task and the replicator of worker i are called with the id of the
\* i-th clone and with the game id (the task: and the strategy) of the
\* metadata file written for that clone.
AddressesClone(i) ==
    /\ IdOf(play_chess_tasks[i].c) = IdOf(Instance(i))
    /\ IdOf(sync_gamestate_tasks[i].c) = IdOf(Instance(i))
    /\ meta[i].instance_id = IdOf(Instance(i))
    /\ play_chess_tasks[i].g = meta[i].game_id
    /\ play_chess_tasks[i].s = meta[i].strategy
    /\ sync_gamestate_tasks[i].g = meta[i].game_id

\* C12: when branch has returned n clones (n the number of game ids), main
\* starts exactly n tasks and n replicators, the i-th of each addressing the
\* i-th clone with the game id and strategy of that clone's metadata file.
C12_TasksAddressTheirClones ==
    (nClones = NWorkers /\ mainPc \in {"gather", "raised", "returned"}) =>
        /\ Started = Workers
        /\ \A w \in Workers : repl[w] # "none"
        /\ Len(play_chess_tasks) = NWorkers
        /\ Len(sync_gamestate_tasks) = NWorkers
        /\ Len(meta) = NWorkers
        /\ \A i \in Workers : AddressesClone(i)

\* C13: when branch returns a number of handles other than the number of
\* game ids, main fails before it starts a task or a replicator.
C13_FailsOnWrongCloneCount ==
    (nClones >= 0 /\ nClones # NWorkers) =>
        /\ Started = {}
        /\ mainPc \notin {"gather", "returned"}
        /\ scriptPc \notin {"stop_instances", "delete_snapshots", "exit"}

\* The instances the run has provisioned: the base instance and the clones.
Provisioned ==
    {IdOf(Instance(j)) : j \in 0..(IF nClones < 0 THEN 0 ELSE nClones)}

StopAttempted(i) == \E k \in 1..Len(stops) : stops[k].id = i
DeleteAttempted(x) == \E k \in 1..Len(deletes) : deletes[k].id = x

\* The script has ended, normally or with an uncaught exception.
ScriptEnded == scriptPc \in {"exit", "crashed"}

\* C14: a run that was not asked to persist its resources ends, on every
\* exit path of main, with a stop attempted on every provisioned instance
\* and a delete attempted on every snapshot.
C14_TeardownOnEveryExit ==
    ScriptEnded =>
        /\ ~persist_instances => \A i \in Provisioned : StopAttempted(i)
        /\ ~persist_snapshots =>
               \A k \in 1..Len(SnapshotIds) : DeleteAttempted(SnapshotIds[k])

\* The number of stop calls made on instance i, of delete calls on snapshot x.
StopAttempts(i) == Cardinality({k \in 1..Len(stops) : stops[k].id = i})
DeleteAttempts(x) == Cardinality({k \in 1..Len(deletes) : deletes[k].id = x})

\* C15: once teardown has begun, a stop or delete that fails, whatever it
\* raises, does not abort it: when the script has ended every instance of
\* the listing has had exactly one stop attempt and every snapshot exactly
\* one delete attempt.
C15_TeardownNeverAborts ==
    (ScriptEnded /\ mainPc = "returned") =>
        /\ \A k \in 1..Len(instances) : StopAttempts(instances[k]) = 1
        /\ ~persist_snapshots =>
               \A k \in 1..Len(SnapshotIds) :
                   DeleteAttempts(SnapshotIds[k]) = 1

\* C16: the run has an overall deadline: even when a remote command never
\* returns, the join in main ends, and the script leaves asyncio.run for
\* its teardown or its end.
C16_JoinEndsByDeadline ==
    <>(mainPc \in {"raised", "returned"} /\ scriptPc # "run")

(***************************************************************************)
(* Claims about the replicator as a cancellable task.                      *)
(***************************************************************************)
\* The step that ends the polling loop with the channel open.
LoopExitStep == pc # "done" /\ pc' = "done" /\ sftp = "open"

\* C17: a replicator cancelled while it waits on a transfer or on the sleep
\* closes its SFTP channel and starts no further poll; so does every other
\* exit of the polling loop (deadline, inactivity, unchanged limit, error).
C17_EveryExitClosesChannel ==
    /\ [](pc = "done" => sftp # "open")
    /\ [][ /\ LoopExitStep => sftp' = "closed"
           /\ pc = "done" => (pc' = "done" /\ sftp' = sftp) ]_vars

\* The replicator was cancelled in the middle of a transfer.
C17_Witness ==
    /\ pc = "done"
    /\ exitReason = "cancelled"
    /\ xfer # NoFile
    /\ fs[TempFile].n < xfer.n
    /\ sftp = "closed"

(***************************************************************************)
(* Claims about the monitor.                                               *)
(***************************************************************************)
\* The create_or_update_game_display in progress runs to its end.
UpdateStep == UpdateDue /\ running' = Tail(running)

\* The file of the update in progress exists and its hash is the hash
\* recorded for its game id.
SameHashRecorded ==
    /\ UpdateDue
    /\ disk[running[1].g] # NoFile
    /\ DisplayKey(running[1].g) \in DOMAIN game_state_hashes
    /\ game_state_hashes[DisplayKey(running[1].g)] =
           Hash(disk[running[1].g])

\* C18: create_or_update_game_display applied to a file whose hash equals
\* the hash recorded for its game id changes nothing of what is shown:
\* boards, game_info, displayed_games and the grid cells stay as they are,
\* each time it is applied.
C18_SameHashIsNoOp ==
    [][(UpdateStep /\ SameHashRecorded) =>
           UNCHANGED <<boards, game_info, displayed_games, game_frames,
                       game_state_hashes>>]_vars

\* A displayed game was seen again after its display last changed, with the
\* same file, although its metadata file has appeared since.
C18_Witness ==
    \E g \in Games :
        /\ DisplayKey(g) \in displayed_games
        /\ game_state_hashes[DisplayKey(g)] = Hash(disk[g])
        /\ game_last_seen[DisplayKey(g)] > shownAt[g]
        /\ metaFile
        /\ game_info[DisplayKey(g)].instance_id.kind = "Unknown"

\* The check_for_missing_games in progress runs to its end.
CheckStep ==
    running # <<>> /\ running[1].op = "check" /\ running' = Tail(running)

InPlaceUpdateStep ==
    /\ UpdateStep
    /\ displayed_games' = displayed_games
    /\ boards' # boards \/ game_info' # game_info

\* C20: rearrange_boards runs after every change of the set of displayed
\* games, an insertion as well as a removal, and never because a displayed
\* game was updated in place.
C20_RearrangedOnMembershipChangeOnly ==
    [][ /\ displayed_games' # displayed_games => rearranged'
        /\ InPlaceUpdateStep => ~rearranged' ]_vars

(***************************************************************************)
(* Further claims about the replicator's loop and the monitor's cycle.     *)
(***************************************************************************)
\* C29: the replicator stops after 15 unchanged checks: once 15 polls since
\* the last publish have been counted as unchanged, the loop test lets no
\* further poll start.
C29_StopsAfterMaxUnchanged ==
    [][(pc = "test" /\ consecutive_unchanged >= MaxUnchanged)
           => pc' # "get"]_vars

\* The monitoring thread runs one cycle of monitor_files.
CycleStep == mnow >= scanAt /\ after = <<>> /\ after' # <<>>

\* An update of game file g is among the callbacks q.
UpdateScheduled(q, g) ==
    \E i \in 1..Len(q) : q[i].op = "update" /\ q[i].g = g

\* The hash recorded for the game of file g is the hash of the file.
RecordedHashCurrent(g) ==
    /\ DisplayKey(g) \in DOMAIN game_state_hashes
    /\ game_state_hashes[DisplayKey(g)] = Hash(disk[g])

\* C30: a cycle of the monitoring thread schedules an update for a game
\* file only if the hash of the file differs from the hash recorded for the
\* game or none is recorded; for a displayed game whose file is unchanged it
\* schedules nothing.
C30_UpdateScheduledOnlyOnChange ==
    [][CycleStep =>
          \A g \in Games :
              (disk[g] # NoFile /\ RecordedHashCurrent(g))
                  => ~UpdateScheduled(after', g)]_vars

(***************************************************************************)
(* The first replicator, the __main__ script of sync_gamestate.py: the     *)
(* same connection, loop test, download and sleep as sync_game_state, with *)
(* the change detected on the "fen" key of the blob and with its own       *)
(* handling of a missing file, a missing key and a malformed file.         *)
(***************************************************************************)
\* A complete JSON document that has no "fen" key.
NoFenBlob == [id |-> 0, n |-> BlobLen]

\* json.load(open(tmp file)) succeeds: the document is complete.
JsonLoads(c) == c.n = BlobLen

\* game_state["fen"] does not raise KeyError.
HasFen(c) == c.id \in 1..NBlobs

\* new_fen = game_state["fen"]; last_fen = None before the first publish.
Fen(c) == [alg |-> "fen", of |-> c.id]

\* sftp.get opens the remote file, which may also be a document without the
\* key, and the local temp file.
FenGetStart ==
    /\ pc = "get"
    /\ \E c \in RemoteContents \cup {NoFenBlob} : xfer' = c
    /\ fs' = [fs EXCEPT ![GetLocalPath] = Empty]
    /\ pc' = "xfer"
    /\ UNCHANGED <<now, last_content_hash, last_activity_time,
                   consecutive_unchanged, end_time, timeout, game_timeout,
                   sftp, exitReason, readerSaw, histCap, lastNewAt, observed,
                   published>>
    /\ UNCHANGED notSync

\* except FileNotFoundError: continue -- back to the loop test, the sleep at
\* the end of the try body is not reached.
FenGetNotFound ==
    /\ pc = "get"
    /\ \E d \in 0..MaxGetTicks : now' = now + d
    /\ pc' = "test"
    /\ UNCHANGED <<last_content_hash, last_activity_time,
                   consecutive_unchanged, end_time, timeout, game_timeout,
                   fs, xfer, sftp, exitReason, readerSaw, histCap, lastNewAt,
                   observed, published>>
    /\ UNCHANGED notSync

\* sftp.get raises anything else: there is no except clause for it, the
\* finally clause closes the channel and the script ends with the error.
FenGetError ==
    /\ pc \in {"get", "xfer"}
    /\ pc' = "done"
    /\ sftp' = ChannelAtExit
    /\ exitReason' = "raised"
    /\ xfer' = NoFile
    /\ UNCHANGED <<now, last_content_hash, last_activity_time,
                   consecutive_unchanged, end_time, timeout, game_timeout,
                   fs, readerSaw, histCap, lastNewAt, observed, published>>
    /\ UNCHANGED notSync

\* json.load raises JSONDecodeError: not caught either.
FenMalformed ==
    /\ pc = "parse"
    /\ ~JsonLoads(fs[TempFile])
    /\ pc' = "done"
    /\ sftp' = ChannelAtExit
    /\ exitReason' = "raised"
    /\ UNCHANGED <<now, last_content_hash, last_activity_time,
                   consecutive_unchanged, end_time, timeout, game_timeout,
                   fs, xfer, readerSaw, histCap, lastNewAt, observed,
                   published>>
    /\ UNCHANGED notSync

\* except KeyError: continue -- back to the loop test without the sleep.
FenMissingKey ==
    /\ pc = "parse"
    /\ JsonLoads(fs[TempFile])
    /\ ~HasFen(fs[TempFile])
    /\ pc' = "test"
    /\ UNCHANGED <<now, last_content_hash, last_activity_time,
                   consecutive_unchanged, end_time, timeout, game_timeout,
                   fs, xfer, sftp, exitReason, readerSaw, histCap, lastNewAt,
                   observed, published>>
    /\ UNCHANGED notSync

\* if last_fen is None or last_fen != new_fen: publish; then time.sleep(0.5).
FenChanged ==
    /\ pc = "parse"
    /\ JsonLoads(fs[TempFile])
    /\ HasFen(fs[TempFile])
    /\ last_content_hash # Fen(fs[TempFile])
    /\ last_content_hash' = Fen(fs[TempFile])
    /\ fs' = Move(fs, TempFile, TargetFile)
    /\ lastNewAt' = now
    /\ pc' = "sleep"
    /\ UNCHANGED <<now, last_activity_time, consecutive_unchanged, end_time,
                   timeout, game_timeout, xfer, sftp, exitReason, readerSaw,
                   histCap, observed, published>>
    /\ UNCHANGED notSync

\* else: c += 1; then time.sleep(0.5).
FenUnchanged ==
    /\ pc = "parse"
    /\ JsonLoads(fs[TempFile])
    /\ HasFen(fs[TempFile])
    /\ last_content_hash = Fen(fs[TempFile])
    /\ consecutive_unchanged' = consecutive_unchanged + 1
    /\ pc' = "sleep"
    /\ UNCHANGED <<now, last_content_hash, last_activity_time, end_time,
                   timeout, game_timeout, fs, xfer, sftp, exitReason,
                   readerSaw, histCap, lastNewAt, observed, published>>
    /\ UNCHANGED notSync

FenNext ==
    \/ ConnectOk
    \/ ConnectFail
    \/ LoopEnter
    \/ LoopExit
    \/ FenGetNotFound
    \/ FenGetError
    \/ FenGetStart
    \/ GetChunk
    \/ GetDone
    \/ FenMalformed
    \/ FenMissingKey
    \/ FenChanged
    \/ FenUnchanged
    \/ Sleep

NextFen == FenNext

SpecFen == Init /\ [][NextFen]_vars

\* The step that ends a poll: the download or the handling of the file ends.
PollEndStep ==
    pc \in {"get", "xfer", "parse"} /\ pc' \notin {"get", "xfer", "parse"}

\* C28: in every replicator variant each poll, whatever its outcome, is
\* followed by the 0.5 s inter-poll delay before the next poll starts: a
\* poll ends in the sleep (or ends the loop), the sleep adds the delay and
\* leads to the loop test, and the loop test is reached from nowhere else
\* once the loop has begun.
C28_DelayAfterEveryPoll ==
    [][ /\ PollEndStep => pc' \in {"sleep", "done"}
        /\ pc = "sleep" => (pc' = "test" /\ now' = now + SleepTicks)
        /\ (pc' = "test" /\ pc # "test") => pc \in {"connect", "sleep"} ]_vars

(***************************************************************************)
(* The worker: the remote command of play_chess, agent.py, chess_game.py.  *)
(***************************************************************************)
\* export ... && cd app && mkdir chess_autosaves && uv add pyproject.toml:
\* the commands before uv run agent.py succeed, or one of them fails and the
\* shell runs none of the rest.
ShellPrefix ==
    /\ agentPc = "shell"
    /\ \E ok \in BOOLEAN :
          IF ok THEN agentPc' = "parse" /\ exitCode' = exitCode
          ELSE agentPc' = "exited" /\ exitCode' = 1
    /\ UNCHANGED <<cmd, game_uuid, move_stack, remote>>
    /\ UNCHANGED notWorker

\* args = arg_parser.parse_args(): every option of the command line is one
\* the parser defines.
ArgsAccepted == cmd.options \subseteq AgentOptions

\* parse_args accepts the command line; the agent goes on to start the game.
AgentParseArgs ==
    /\ agentPc = "parse"
    /\ ArgsAccepted
    /\ agentPc' = "start"
    /\ UNCHANGED <<cmd, exitCode, game_uuid, move_stack, remote>>
    /\ UNCHANGED notWorker

\* parse_args meets an option it does not know: it prints "unrecognized
\* arguments" and exits with status 2, before the try block.
AgentRejectArgs ==
    /\ agentPc = "parse"
    /\ ~ArgsAccepted
    /\ agentPc' = "exited"
    /\ exitCode' = 2
    /\ UNCHANGED <<cmd, game_uuid, move_stack, remote>>
    /\ UNCHANGED notWorker

\* agent.start_new_game: chess_game.py [--autosave] is started;
\* initialize_board draws game_id = str(uuid.uuid4()).
GameStart ==
    /\ agentPc = "start"
    /\ \E u \in 1..NUuids : game_uuid' = u
    /\ agentPc' = "play"
    /\ UNCHANGED <<cmd, exitCode, move_stack, remote>>
    /\ UNCHANGED notWorker

\* One move of game_loop, the agent's (White) or the computer's (Black),
\* with the autosave that follows it; the agent sends a move while
\* move_count < moves_limit and the computer answers each.
GameMove ==
    /\ agentPc = "play"
    /\ move_stack <
           2 * PlayMovesLimit(MainMovesLimit(cmd.moves, cmd.config), cmd.config)
    /\ move_stack' = move_stack + 1
    /\ remote' = IF cmd.autosave
                 THEN remote \cup {AutosavePath(cmd.cwd, game_uuid,
                                                move_stack + 1)}
                 ELSE remote
    /\ UNCHANGED <<cmd, agentPc, exitCode, game_uuid>>
    /\ UNCHANGED notWorker

\* play_game ends (moves limit or game over) and agent.close sends quit.
GameQuit ==
    /\ agentPc = "play"
    /\ move_stack % 2 = 0
    /\ agentPc' = "exited"
    /\ exitCode' = 0
    /\ UNCHANGED <<cmd, game_uuid, move_stack, remote>>
    /\ UNCHANGED notWorker

WorkerNext ==
    \/ ShellPrefix
    \/ AgentParseArgs
    \/ AgentRejectArgs
    \/ GameStart
    \/ GameMove
    \/ GameQuit

NextWorker == WorkerNext

SpecWorker == InitWorker /\ [][NextWorker]_vars

\* C27: the worker started by play_chess for game id g persists its game
\* state at app/chess_autosaves/game_id_<g>.json, the path the replicator
\* for g polls, and at no other path, for the whole run: it writes no game
\* file elsewhere, and when its command has ended without a shell error the
\* file is there.
C27_WorkerSavesWherePolled ==
    cmd.by = "play_chess" =>
        /\ remote \subseteq {RemoteFile(cmd.game_id)}
        /\ (agentPc = "exited" /\ exitCode # 1) =>
               RemoteFile(cmd.game_id) \in remote

(***************************************************************************)
(* Claims about the layout of the grid and the labels of the games.        *)
(***************************************************************************)
\* Cell c comes before cell d in row-major order.
Precedes(c, d) == c.row < d.row \/ (c.row = d.row /\ c.col < d.col)

\* C21: once the callbacks of a cycle have run, the displayed games are laid
\* out in id order: for displayed ids a < b the cell of a precedes the cell
\* of b in row-major order; and an in-place update moves no game to another
\* cell.
C21_LaidOutInIdOrder ==
    /\ [](after = <<>> /\ running = <<>> =>
             \A a, b \in displayed_games :
                 a.n < b.n => Precedes(game_frames[a], game_frames[b]))
    /\ [][InPlaceUpdateStep => game_frames' = game_frames]_vars

\* C22: when the files of two games have been published and both games are
\* displayed, the monitor displays exactly two entries, one per id, each
\* labelled with the strategy the orchestrator assigned to that id.
C22_TwoEntriesWithTheirStrategies ==
    (\A g \in GridGames : DisplayKey(g) \in displayed_games) =>
        /\ Cardinality(displayed_games) = NGridGames
        /\ \A g \in GridGames :
               game_info[DisplayKey(g)].strategy = strategies[g]

(***************************************************************************)
(* Claims about the threads of the monitor.                                *)
(***************************************************************************)
\* What the monitor shows and the hashes it has recorded.
registry ==
    <<boards, game_info, displayed_games, game_state_hashes, game_frames>>

\* The callback in progress returns.
CallbackEndStep == running # <<>> /\ running' = Tail(running)

\* C23: updates and prunes run one at a time: at most one callback
\* (create_or_update_game_display or check_for_missing_games) is in
\* progress at any moment, whatever the monitoring thread does meanwhile,
\* and boards, game_info, displayed_games, game_state_hashes and game_frames
\* change only in the step in which the callback in progress returns.
C23_CallbacksSerialized ==
    /\ [](Len(running) <= 1)
    /\ [][registry' # registry => CallbackEndStep]_vars

\* The monitoring thread has run a cycle while a prune was in progress: the
\* prune has begun before, and the callbacks of the later cycle wait in the
\* queue.
C23_Witness ==
    /\ Len(running) = 1
    /\ running[1].op = "check"
    /\ running[1].t < scanAt - RefreshRate
    /\ Len(after) >= 2
    /\ displayed_games # {}

(***************************************************************************)
(* Claims about the workers under the orchestrator's event loop.           *)
(***************************************************************************)
\* Worker w is blocked: its replicator is connecting its transfer channel
\* or fetching a file, or its task waits on its remote command.
Blocked(w) ==
    \/ repl[w] \in {"connecting", "opening", "polling"}
    \/ task[w] = "running"

\* C25: while one worker's replicator or task is blocked, the replicator of
\* every other worker that is in its polling loop can take its next step:
\* no step of a worker waits for a step of another.
C25_WorkersDoNotBlockEachOther ==
    \A w, v \in Workers :
        (w # v /\ Blocked(w) /\ repl[v] = "polling" /\ ~InSyncCall(v) /\ ~cancelReq)
            => ENABLED ReplEnd(v)

(***************************************************************************)
(* Claims about the metadata files.                                        *)
(***************************************************************************)
\* No task or replicator has been created by the gather call.
NothingStarted == \A w \in Workers : task[w] = "none" /\ repl[w] = "none"

\* The metadata files are written in this step.
MetadataWritten == meta' # meta

\* C26: the metadata files are written in one step of main, the loop before
\* the gather call, while no task or replicator exists and no file has been
\* written yet; once a task or replicator exists there is one file per
\* clone that has a game id, and the file of game id i holds the id of
\* clone i, game id i and strategy i.  No other step, of the orchestrator,
\* of a replicator or of the monitor, writes a metadata file.
C26_MetadataBeforeTasks ==
    /\ [][MetadataWritten =>
            /\ mainPc = "metadata" /\ mainPc' = "lists"
            /\ meta = <<>>
            /\ NothingStarted /\ NothingStarted']_vars
    /\ [](~NothingStarted => Len(meta) = Min(nClones, NWorkers))
    /\ [](\A i \in 1..Len(meta) :
            /\ meta[i].instance_id = IdOf(Instance(i))
            /\ meta[i].game_id = game_ids[i]
            /\ meta[i].strategy = strategies[i])

\* Three clones, three files, and the tasks and replicators at work.
C26_Witness ==
    /\ nClones = NWorkers
    /\ Len(meta) = NWorkers
    /\ \E w \in Workers : task[w] = "running" /\ repl[w] = "polling"

(***************************************************************************)
(* Claims about a whole run.                                               *)
(***************************************************************************)
\* No task and no replicator has ended with an exception.
NoChildRaised == \A w \in Workers : task[w] # "raised" /\ repl[w] # "raised"

\* C24: in a run with three clones whose workers and replicators do not
\* fail, main does not end with an exception, and when its join has
\* returned the replicators of all three workers have run and have ended
\* (as have the tasks).
C24_ThreeReplicatorsEndAndJoinReturns ==
    (nClones = NWorkers /\ NoChildRaised) =>
        /\ mainPc # "raised"
        /\ mainPc = "returned" =>
               \A w \in Workers : repl[w] = "done" /\ task[w] = "done"

(***************************************************************************)
(* schemas.py: validation of a ChessMoveResponse.                          *)
(***************************************************************************)
InitSchema ==
    /\ Start(Timeout, GameTimeout, 0)
    /\ OrchStart(FALSE, FALSE)
    /\ MonStart
    /\ WorkerStart(PlayChessCmd(game_ids[1], strategies[1]))
    /\ \E s \in MoveTexts, a \in AltLists : SchemaStart(s, a)
    /\ DelStart(1)
    /\ PlayStart(NUM_MOVES, NoMaxMoves, NoOutput)
    /\ EngineStart(1, TRUE)
    /\ Mon2Start

\* validate_selected_move: a text of 4 or 5 characters passes, any other
\* raises ValueError and the field is left out of values.
ValidateSelectedMove ==
    /\ schemaPc = "selected_move"
    /\ values' = IF Len(selected_move) = 4 \/ Len(selected_move) = 5
                 THEN values \cup {"selected_move"} ELSE values
    /\ schemaPc' = "alternative_moves"
    /\ UNCHANGED <<selected_move, alternative_moves>>
    /\ UNCHANGED notSchema

\* validate_alternative_moves, then the end of the validation: the object
\* exists if no validator has raised.
ValidateAlternativeMoves ==
    /\ schemaPc = "alternative_moves"
    /\ alternative_moves' =
           IF "selected_move" \in values /\ In(selected_move, alternative_moves)
           THEN Remove(alternative_moves, selected_move)
           ELSE alternative_moves
    /\ IF "selected_move" \in values
       THEN /\ values' = values \cup {"alternative_moves"}
            /\ schemaPc' = "validated"
       ELSE /\ values' = values
            /\ schemaPc' = "ValidationError"
    /\ UNCHANGED selected_move
    /\ UNCHANGED notSchema

SchemaNext ==
    \/ ValidateSelectedMove
    \/ ValidateAlternativeMoves

NextSchema == SchemaNext

SpecSchema == InitSchema /\ [][NextSchema]_vars

\* C32: in a validated ChessMoveResponse alternative_moves does not contain
\* selected_move, whatever list of alternatives the answer held.
C32_AlternativesExcludeSelected ==
    schemaPc = "validated" => ~In(selected_move, alternative_moves)

(***************************************************************************)
(* delete_all_instances.py: the loop of lines 60-83.                       *)
(***************************************************************************)
InitDel ==
    /\ Start(Timeout, GameTimeout, 0)
    /\ OrchStart(FALSE, FALSE)
    /\ MonStart
    /\ WorkerStart(PlayChessCmd(game_ids[1], strategies[1]))
    /\ SchemaStart("e2e4", <<>>)
    /\ \E n \in 1..MaxListed : DelStart(n)
    /\ PlayStart(NUM_MOVES, NoMaxMoves, NoOutput)
    /\ EngineStart(1, TRUE)
    /\ Mon2Start

\* The end of an iteration: the next instance, or the summary.
DelAdvance ==
    /\ del_i' = del_i + 1
    /\ delPc' = IF del_i = listed THEN "done" ELSE "stop"
    /\ polls' = 0

\* except Exception: error_count += 1.
DelError ==
    /\ error_count' = error_count + 1
    /\ DelAdvance
    /\ UNCHANGED <<listed, status, success_count, stoppedSeen>>
    /\ UNCHANGED notDel

\* instance.stop() returns; the instance object is the listed one, whose
\* status is the one of the listing.
DelStop ==
    /\ delPc = "stop"
    /\ delPc' = "poll"
    /\ \E s \in Statuses : status' = s
    /\ UNCHANGED <<listed, del_i, polls, success_count, error_count,
                   stoppedSeen>>
    /\ UNCHANGED notDel

\* instance.stop() raises.
DelStopFail ==
    /\ delPc = "stop"
    /\ DelError

\* One pass of for _ in range(30): the instance is fetched again; status
\* "stopped" breaks the loop, any other is followed by time.sleep(1).
DelPoll ==
    /\ delPc = "poll"
    /\ polls < StatusPolls
    /\ \E s \in Statuses :
          /\ status' = s
          /\ IF s = "stopped"
             THEN /\ delPc' = "counted"
                  /\ stoppedSeen' = stoppedSeen \cup {del_i}
             ELSE /\ delPc' = "poll"
                  /\ stoppedSeen' = stoppedSeen
    /\ polls' = polls + 1
    /\ UNCHANGED <<listed, del_i, success_count, error_count>>
    /\ UNCHANGED notDel

\* client.instances.get raises.
DelPollFail ==
    /\ delPc = "poll"
    /\ polls < StatusPolls
    /\ DelError

\* The range is exhausted: the for loop ends without a break.
DelPollsExhausted ==
    /\ delPc = "poll"
    /\ polls = StatusPolls
    /\ delPc' = "counted"
    /\ UNCHANGED <<listed, del_i, polls, status, success_count, error_count,
                   stoppedSeen>>
    /\ UNCHANGED notDel

\* success_count += 1, after the for loop.
DelCount ==
    /\ delPc = "counted"
    /\ success_count' = success_count + 1
    /\ DelAdvance
    /\ UNCHANGED <<listed, status, error_count, stoppedSeen>>
    /\ UNCHANGED notDel

DelNext ==
    \/ DelStop
    \/ DelStopFail
    \/ DelPoll
    \/ DelPollFail
    \/ DelPollsExhausted
    \/ DelCount

NextDel == DelNext

SpecDel == InitDel /\ [][NextDel]_vars

\* C35: an instance is counted in success_count only if its status was read
\* as "stopped" after the stop request, and at the summary success_count +
\* error_count is the number of listed instances.
C35_SuccessOnlyWhenStopped ==
    /\ success_count <= Cardinality(stoppedSeen)
    /\ delPc = "done" =>
           /\ success_count = Cardinality(stoppedSeen)
           /\ success_count + error_count = listed

(***************************************************************************)
(* agent.py: play_game.                                                    *)
(***************************************************************************)
InitPlay ==
    /\ Start(Timeout, GameTimeout, 0)
    /\ OrchStart(FALSE, FALSE)
    /\ MonStart
    /\ WorkerStart(PlayChessCmd(game_ids[1], strategies[1]))
    /\ SchemaStart("e2e4", <<>>)
    /\ DelStart(1)
    /\ \E m \in 1..MaxMoves,
          c \in {NoMaxMoves} \cup {ChessConfig(k) : k \in 1..MaxConfigMoves},
          o \in {x \in Outputs : ~x.error} :
          PlayStart(m, c, o)
    /\ EngineStart(1, TRUE)
    /\ Mon2Start

\* output = self._read_until_prompt(); self._parse_output(output): the read
\* returns within its 15 s with what the process has printed, nothing when
\* it has exited; turn is replaced when the output names one, game_over is
\* assigned.
ReadAndParse(o) ==
    /\ alive \/ o = NoOutput
    /\ turn' = IF o.turn # "" THEN o.turn ELSE turn
    /\ game_over' = o.over

\* The chess process exits (quit, an error of the computer's move, the end
\* of the game, a crash).
ProcessExits ==
    /\ alive
    /\ loopPc \notin {"done", "raised"}
    /\ alive' = FALSE
    /\ UNCHANGED <<loopPc, args_moves, config, moves_limit, move_count, turn,
                   game_over>>
    /\ UNCHANGED notPlay

\* Lines 531-539: move_count = 0, the limit of the configuration, and the
\* test of self.turn.
PlayEnter ==
    /\ loopPc = "enter"
    /\ moves_limit' = PlayMovesLimit(moves_limit, config)
    /\ move_count' = 0
    /\ loopPc' = IF turn = "" THEN "first_read" ELSE "test"
    /\ UNCHANGED <<args_moves, config, turn, game_over, alive>>
    /\ UNCHANGED notPlay

\* Lines 541-542.
PlayFirstRead ==
    /\ loopPc = "first_read"
    /\ \E o \in Outputs : ReadAndParse(o)
    /\ loopPc' = "test"
    /\ UNCHANGED <<args_moves, config, moves_limit, move_count, alive>>
    /\ UNCHANGED notPlay

\* while not self.game_over and move_count < moves_limit, and the test of
\* the turn at line 546.
PlayTest ==
    /\ loopPc = "test"
    /\ loopPc' = IF game_over \/ move_count >= moves_limit THEN "done"
                 ELSE IF turn = "Black" THEN "wait"
                 ELSE "valid_moves"
    /\ UNCHANGED <<args_moves, config, moves_limit, move_count, turn,
                   game_over, alive>>
    /\ UNCHANGED notPlay

\* Lines 548-551: the output of the computer's move is read; continue.
PlayWaitBlack ==
    /\ loopPc = "wait"
    /\ \E o \in Outputs : ReadAndParse(o)
    /\ loopPc' = "test"
    /\ UNCHANGED <<args_moves, config, moves_limit, move_count, alive>>
    /\ UNCHANGED notPlay

\* generate_chess_move, line 491: get_valid_moves sends "moves", reads and
\* parses.
PlayValidMoves ==
    /\ loopPc = "valid_moves"
    /\ \E o \in Outputs : ReadAndParse(o)
    /\ loopPc' = "query"
    /\ UNCHANGED <<args_moves, config, moves_limit, move_count, alive>>
    /\ UNCHANGED notPlay

\* query_llm returns an answer, or raises (the exception leaves play_game).
PlayQuery ==
    /\ loopPc = "query"
    /\ \E ok \in BOOLEAN : loopPc' = IF ok THEN "parse_move" ELSE "raised"
    /\ UNCHANGED <<args_moves, config, moves_limit, move_count, turn,
                   game_over, alive>>
    /\ UNCHANGED notPlay

\* _parse_llm_chess_move, line 460: get_valid_moves again, then the move
\* text of the answer, a random valid move, or "".
PlayParseMove ==
    /\ loopPc = "parse_move"
    /\ \E o \in Outputs : ReadAndParse(o)
    /\ loopPc' = "make_move"
    /\ UNCHANGED <<args_moves, config, moves_limit, move_count, alive>>
    /\ UNCHANGED notPlay

\* make_move with self.game_over set: (False, "Game is already over").
PlayMoveGameOver ==
    /\ loopPc = "make_move"
    /\ game_over
    /\ loopPc' = "retry"
    /\ UNCHANGED <<args_moves, config, moves_limit, move_count, turn,
                   game_over, alive>>
    /\ UNCHANGED notPlay

\* make_move: the move is sent, the output is read and parsed; "Error" in
\* the output is a failure, any other output (none included) a success
\* that is counted: move_count += 1, time.sleep(1).
PlayMakeMove ==
    /\ loopPc = "make_move"
    /\ ~game_over
    /\ \E o \in Outputs :
          /\ ReadAndParse(o)
          /\ IF o.error
             THEN loopPc' = "retry" /\ move_count' = move_count
             ELSE loopPc' = "test" /\ move_count' = move_count + 1
    /\ UNCHANGED <<args_moves, config, moves_limit, alive>>
    /\ UNCHANGED notPlay

\* Lines 558-562: get_valid_moves; continue.
PlayRetry ==
    /\ loopPc = "retry"
    /\ \E o \in Outputs : ReadAndParse(o)
    /\ loopPc' = "test"
    /\ UNCHANGED <<args_moves, config, moves_limit, move_count, alive>>
    /\ UNCHANGED notPlay

\* The steps of the agent.
PlaySteps ==
    \/ PlayEnter
    \/ PlayFirstRead
    \/ PlayTest
    \/ PlayWaitBlack
    \/ PlayValidMoves
    \/ PlayQuery
    \/ PlayParseMove
    \/ PlayMoveGameOver
    \/ PlayMakeMove
    \/ PlayRetry

PlayNext ==
    \/ PlaySteps
    \/ ProcessExits

NextPlay == PlayNext

SpecPlay == InitPlay /\ [][NextPlay]_vars

\* The agent does not stop of itself: each step of play_game that can be
\* taken is taken.
FairSpecPlay == SpecPlay /\ WF_vars(PlaySteps)

\* C31: when --moves N is given, play_game makes at most N successful
\* moves, whatever chess.max_moves of the configuration is.
C31_CommandLineLimitsMoves ==
    args_moves # 0 => move_count <= args_moves

\* C39: play_game always ends, and when its loop has ended game_over is set
\* or move_count is the moves limit.
C39_PlayGameTerminates ==
    /\ <>(loopPc \in {"done", "raised"})
    /\ [](loopPc = "done" => (game_over \/ move_count = moves_limit))

(***************************************************************************)
(* chess_engine.py: the calls made on an engine.                           *)
(***************************************************************************)
InitEngine ==
    /\ Start(Timeout, GameTimeout, 0)
    /\ OrchStart(FALSE, FALSE)
    /\ MonStart
    /\ WorkerStart(PlayChessCmd(game_ids[1], strategies[1]))
    /\ SchemaStart("e2e4", <<>>)
    /\ DelStart(1)
    /\ PlayStart(NUM_MOVES, NoMaxMoves, NoOutput)
    /\ \E u \in 1..NUuids, a \in BOOLEAN : EngineStart(u, a)
    /\ Mon2Start

\* A make_move that tests the notation only.
MoveCheckNotation(b, t) == IF ~IsUci(t) THEN "ValueError" ELSE "True"

\* What make_move(t) does before it changes anything: ValueError for a text
\* that is not UCI, IllegalMoveError for a move that is not legal.
MoveCheck(b, t) ==
    IF ~IsUci(t) THEN "ValueError"
    ELSE IF ~Legal(b, FromUci(t)) THEN "IllegalMoveError"
    ELSE "True"

\* Lines 61-68 and 91-98: the move is pushed, its timestamp is recorded
\* under len(move_stack), and the game is saved when autosave is set.
Played(mv) ==
    /\ board' = Push(board, mv)
    /\ stack' = Append(stack, mv)
    /\ move_timestamps' = move_timestamps \cup {Len(stack) + 1}
    /\ saved' = IF autosave
                THEN GameData(engine_game_id, Push(board, mv),
                              Append(stack, mv),
                              move_timestamps \cup {Len(stack) + 1})
                ELSE saved

\* engine.make_move(t).
EngineMakeMove ==
    \E t \in CallTexts :
        /\ arg' = t
        /\ result' = MoveCheck(board, t)
        /\ IF MoveCheck(board, t) = "True"
           THEN /\ Len(stack) < MaxPlies
                /\ Played(FromUci(t))
           ELSE UNCHANGED <<board, stack, move_timestamps, saved>>
        /\ UNCHANGED <<engine_game_id, autosave, loaded>>
        /\ UNCHANGED notEngine

\* engine.make_computer_move(): None when it is not Black's turn, else a
\* legal move chosen at random is played (ValueError when there is none).
EngineMakeComputerMove ==
    /\ arg' = <<>>
    /\ IF board.turn # "b"
       THEN /\ result' = "None"
            /\ UNCHANGED <<board, stack, move_timestamps, saved>>
       ELSE IF LegalMoves(board) = {}
       THEN /\ result' = "ValueError"
            /\ UNCHANGED <<board, stack, move_timestamps, saved>>
       ELSE /\ Len(stack) < MaxPlies
            /\ result' = "uci"
            /\ \E mv \in LegalMoves(board) : Played(mv)
    /\ UNCHANGED <<engine_game_id, autosave, loaded>>
    /\ UNCHANGED notEngine

\* engine.save_game(): the file at autosave_path is written.
EngineSaveGame ==
    /\ saved' = GameData(engine_game_id, board, stack, move_timestamps)
    /\ arg' = <<>>
    /\ result' = "filepath"
    /\ UNCHANGED <<board, stack, move_timestamps, engine_game_id, autosave,
                   loaded>>
    /\ UNCHANGED notEngine

\* ChessEngine(load_path=autosave_path): _load_game on the saved file.
EngineLoadGame ==
    /\ saved # NoSave
    /\ loaded' = LoadGame(saved)
    /\ arg' = <<>>
    /\ result' = "engine"
    /\ UNCHANGED <<board, stack, move_timestamps, engine_game_id, autosave,
                   saved>>
    /\ UNCHANGED notEngine

EngineNext ==
    \/ EngineMakeMove
    \/ EngineMakeComputerMove
    \/ EngineSaveGame
    \/ EngineLoadGame

NextEngine == EngineNext

SpecEngine == InitEngine /\ [][NextEngine]_vars

\* The engine's game: board, move stack, timestamps and the autosave file.
game == <<board, stack, move_timestamps, saved>>

\* The call just made was make_move with a text that is not UCI or that is
\* not a legal move of the position it was made in.
RejectedMoveStep ==
    /\ arg' # <<>>
    /\ result' # "none"
    /\ (~IsUci(arg') \/ ~Legal(board, FromUci(arg')))

\* The call just made was make_computer_move when it was not Black's turn.
NotComputersTurnStep ==
    /\ arg' = <<>>
    /\ result' \in {"None", "ValueError", "uci"}
    /\ board.turn # "b"

\* C33: make_move with a text that is not UCI raises ValueError, with a
\* move that is not legal raises IllegalMoveError, and make_computer_move
\* when it is not Black's turn returns None; each leaves the board, the
\* move stack, move_timestamps and the autosave file as they were.
C33_RejectedMoveChangesNothing ==
    [][ /\ RejectedMoveStep =>
              /\ game' = game
              /\ result' = IF IsUci(arg') THEN "IllegalMoveError"
                           ELSE "ValueError"
        /\ NotComputersTurnStep => (game' = game /\ result' = "None") ]_vars

\* An illegal move has been refused in a game under way, with its autosave
\* file written.
C33_Witness ==
    /\ result = "IllegalMoveError"
    /\ arg = <<"g1", "f3">>
    /\ stack # <<>>
    /\ saved # NoSave

\* C34: the engine loaded from a saved file has the placement and the side
\* to move of the FEN that was saved, and the saved game id.
C34_LoadRestoresSavedPosition ==
    (loaded # NoEngine /\ saved # NoSave /\ loaded = LoadGame(saved)) =>
        /\ loaded.board.at = BoardFromFen(saved.fen).at
        /\ loaded.board.turn = BoardFromFen(saved.fen).turn
        /\ BoardFen(loaded.board)[1] = saved.fen[1]
        /\ BoardFen(loaded.board)[2] = saved.fen[2]
        /\ loaded.game_id = saved.game_id

(***************************************************************************)
(* chess_monitor2.py: the monitor thread and the main loop.                *)
(***************************************************************************)
InitMon2 ==
    /\ Start(Timeout, GameTimeout, 0)
    /\ OrchStart(FALSE, FALSE)
    /\ MonStart
    /\ WorkerStart(PlayChessCmd(game_ids[1], strategies[1]))
    /\ ToolsStart

\* A game file is written again: its modification time advances.
Mon2Write ==
    \E f \in Files2 :
        /\ mtime[f] < MaxMtime
        /\ mtime' = [mtime EXCEPT ![f] = mtime[f] + 1]
        /\ UNCHANGED <<last_modified2, loopPos, game_file, updated, after2,
                       checkPending, rendered>>
        /\ UNCHANGED notMon2

\* The thread wakes up: updated = False, the file list is as before, the
\* for loop binds game_file to the first file.
Mon2CycleStart ==
    /\ loopPos = 0
    /\ loopPos' = 1
    /\ game_file' = 1
    /\ updated' = FALSE
    /\ UNCHANGED <<mtime, last_modified2, after2, checkPending, rendered>>
    /\ UNCHANGED notMon2

\* The callback update_specific_game defined at line 306: a closure over
\* the variable game_file of monitor_files; f is the value game_file has
\* when the callback is created.
UpdateCallback(f) == [op |-> "update", for |-> f]

\* The file the callback cb refreshes when it runs: the value of game_file
\* at that time.
FileRefreshed(cb) == game_file


\* The body of the for loop for game_file (lines 298-319), then the next
\* binding of the loop variable; after the last file the variable keeps its
\* value.
Mon2LoopBody ==
    /\ loopPos \in Files2
    /\ IF last_modified2[game_file] = 0 \/
          mtime[game_file] > last_modified2[game_file]
       THEN /\ last_modified2' =
                   [last_modified2 EXCEPT ![game_file] = mtime[game_file]]
            /\ after2' = Append(after2, UpdateCallback(game_file))
            /\ updated' = TRUE
       ELSE UNCHANGED <<last_modified2, after2, updated>>
    /\ loopPos' = loopPos + 1
    /\ game_file' = IF loopPos < NFiles THEN loopPos + 1 ELSE game_file
    /\ UNCHANGED <<mtime, checkPending, rendered>>
    /\ UNCHANGED notMon2

\* Lines 325-335: after a cycle that scheduled an update, the check for
\* missing games is set for 5 s later and rearrange_boards is scheduled;
\* time.sleep(refresh_rate).
Mon2CycleEnd ==
    /\ loopPos = NFiles + 1
    /\ loopPos' = 0
    /\ IF updated
       THEN /\ checkPending' = TRUE
            /\ after2' = Append(after2, [op |-> "rearrange", for |-> 0])
       ELSE UNCHANGED <<checkPending, after2>>
    /\ UNCHANGED <<mtime, last_modified2, game_file, updated, rendered>>
    /\ UNCHANGED notMon2

\* The main loop runs update_specific_game: create_or_update_game_display
\* reads the file and makes its display from the content.
Mon2RunUpdate ==
    /\ after2 # <<>>
    /\ after2[1].op = "update"
    /\ rendered' = [rendered EXCEPT ![FileRefreshed(after2[1])] =
                                        mtime[FileRefreshed(after2[1])]]
    /\ after2' = Tail(after2)
    /\ UNCHANGED <<mtime, last_modified2, loopPos, game_file, updated,
                   checkPending>>
    /\ UNCHANGED notMon2

\* The main loop runs rearrange_boards: no file is read.
Mon2RunRearrange ==
    /\ after2 # <<>>
    /\ after2[1].op = "rearrange"
    /\ after2' = Tail(after2)
    /\ UNCHANGED <<mtime, last_modified2, loopPos, game_file, updated,
                   checkPending, rendered>>
    /\ UNCHANGED notMon2

\* The main loop runs check_for_missing_games when its timer ends: no file
\* is read.
Mon2RunCheck ==
    /\ checkPending
    /\ checkPending' = FALSE
    /\ UNCHANGED <<mtime, last_modified2, loopPos, game_file, updated,
                   after2, rendered>>
    /\ UNCHANGED notMon2

Mon2Next ==
    \/ Mon2Write
    \/ Mon2CycleStart
    \/ Mon2LoopBody
    \/ Mon2CycleEnd
    \/ Mon2RunUpdate
    \/ Mon2RunRearrange
    \/ Mon2RunCheck

NextMon2 == Mon2Next

SpecMon2 == InitMon2 /\ [][NextMon2]_vars

\* C36: an update callback, when it runs, refreshes the file whose
\* modification it was scheduled for: that file's display is made from the
\* content the file has then.
C36_CallbackRefreshesItsFile ==
    [][(after2 # <<>> /\ after2[1].op = "update" /\ after2' = Tail(after2))
          => rendered'[after2[1].for] = mtime[after2[1].for]]_vars

\* C37: no two displayed games occupy the same grid cell (row, column),
\* whatever the order in which games appeared, were updated and removed.
C37_NoTwoGamesInOneCell ==
    \A a \in displayed_games : \A b \in displayed_games :
        (a # b /\ a \in DOMAIN game_frames /\ b \in DOMAIN game_frames)
            => game_frames[a] # game_frames[b]

(***************************************************************************)
(* chess_monitor.py: game files whose position chess.Board rejects.        *)
(***************************************************************************)
\* Game file g is written with a document whose fen is not a position.
WriteBadPosition(g) ==
    /\ disk[g] # BadPosition
    /\ disk' = [disk EXCEPT ![g] = BadPosition]
    /\ UNCHANGED <<metaFile, mnow, scanAt, after, running, last_modified,
                   game_state_hashes, game_last_seen, displayed_games,
                   boards, game_info, game_frames, rearranged, shownAt>>
    /\ UNCHANGED notMon

\* create_or_update_game_display on such a file of a displayed game: the
\* hash is recorded, chess.Board(fen) raises at line 198 before anything is
\* assigned, and the except clause of line 278 ends the call.
UpdateInPlaceFails ==
    /\ UpdateDue
    /\ LET g == running[1].g
           k == DisplayKey(g)
       IN  /\ disk[g] # NoFile
           /\ ~StateUnchanged(k, Hash(disk[g]))
           /\ JsonDocument(disk[g])
           /\ ~ValidFen(disk[g])
           /\ k \in displayed_games
           /\ game_state_hashes' = Put(game_state_hashes, k, Hash(disk[g]))
    /\ running' = Tail(running)
    /\ rearranged' = FALSE
    /\ UNCHANGED <<disk, metaFile, mnow, scanAt, after, last_modified,
                   game_last_seen, displayed_games, boards, game_info,
                   game_frames, shownAt>>
    /\ UNCHANGED notMon

\* create_or_update_game_display on such a file of a game not displayed:
\* the hash is recorded, the frame is created, put in the grid and stored
\* in game_frames (lines 225-227); chess.Board(fen) raises at line 230 and
\* the except clause of line 278 ends the call.
UpdateInsertFails ==
    /\ UpdateDue
    /\ LET g == running[1].g
           k == DisplayKey(g)
       IN  /\ disk[g] # NoFile
           /\ ~StateUnchanged(k, Hash(disk[g]))
           /\ JsonDocument(disk[g])
           /\ ~ValidFen(disk[g])
           /\ k \notin displayed_games
           /\ game_state_hashes' = Put(game_state_hashes, k, Hash(disk[g]))
           /\ game_frames' =
                  Put(game_frames, k, Cell(running[1].idx, running[1].cols))
    /\ running' = Tail(running)
    /\ rearranged' = FALSE
    /\ UNCHANGED <<disk, metaFile, mnow, scanAt, after, last_modified,
                   game_last_seen, displayed_games, boards, game_info,
                   shownAt>>
    /\ UNCHANGED notMon

BoardNext ==
    \/ \E g \in Games : WriteGameFile(g)
    \/ \E g \in Games : WriteBadPosition(g)
    \/ \E g \in Games : DeleteGameFile(g)
    \/ WriteMetadataFiles
    \/ MonTick
    \/ MonitorCycle
    \/ CallbackBegin
    \/ UpdateSkipped
    \/ UpdateUnreadable
    \/ UpdateInPlace
    \/ UpdateInPlaceFails
    \/ UpdateInsert
    \/ UpdateInsertFails
    \/ CheckForMissingGames

NextBoard == BoardNext

\* The monitor and the files it watches, some of them with a position that
\* is not valid.
SpecBoard == Init /\ [][NextBoard]_vars

\* C38: when no callback is in progress (after every update and every
\* prune), an id has a frame in game_frames if and only if it is in
\* displayed_games, and every displayed id has its entries in boards and
\* game_info (board_widgets is assigned and deleted together with boards);
\* this also after a creation that failed part-way.
C38_MapsAgreeWithDisplayedSet ==
    running = <<>> =>
        /\ DOMAIN game_frames = displayed_games
        /\ displayed_games \subseteq DOMAIN boards
        /\ displayed_games \subseteq DOMAIN game_info

=============================================================================
